---- MODULE Spec2Model ----
(***************************************************************************)
(* A model of the installation core of hanzoui/desktop:                    *)
(*   - the version comparison of src/src/utils.ts (compareVersions),       *)
(*   - the shell probe of src/src/utils.ts (canExecuteShellCommand),       *)
(*   - the process-wide app state and install stage tracker (AppState),    *)
(*   - the snapshot migration of the extension-manager CLI (CmCli).        *)
(* Each component has its own specification over the shared variables; a   *)
(* component's specification leaves the other components' variables alone. *)
(***************************************************************************)
EXTENDS Integers, Sequences, FiniteSets, TLC

VARIABLES
    \* compareVersions / isNvidiaDriverBelowMinimum
    versionA,       \* first argument: a string as a sequence of characters, or Undefined
    versionB,       \* second argument
    verPc,          \* "input" -> "compared" -> "checked"
    cmpResult,      \* outcome of compareVersions(versionA, versionB)
    belowResult     \* outcome of isNvidiaDriverBelowMinimum(versionA, versionB)

VARIABLES
    \* the app state singleton and the install stage tracker
    initialized,    \* module-level flag of initializeAppState
    isQuitting,     \* AppState.isQuitting
    ipcRegistered,  \* AppState.ipcRegistered
    loaded,         \* AppState.loaded
    installStage,   \* AppState.installStage
    listeners,      \* the emitter's listener list of each event, in registration order
    quitListeners,  \* number of 'before-quit' once-handlers registered on the electron app
    callStack,      \* the emits in progress, innermost last
    lastCall,       \* what the caller of the last top-level call observed
    received,       \* per subscriber and one-shot event: deliveries so far (saturating)
    emits           \* per one-shot event: how often it has been emitted (saturating)

VARIABLES
    \* canExecuteShellCommand, one entry per probe
    proc,           \* the child process of exec: its state, exit code, whether kill() signalled it
    timer,          \* the setTimeout timer: "none", "armed", "fired"
    promise         \* the returned promise: its state and, when resolved, its value

VARIABLES
    \* CmCli
    cmOp,           \* the last call: "none", "runCommandAsync", "restoreCustomNodes"
    cmFrom,         \* the fromComfyDir argument of the last restoreCustomNodes
    cmPc,           \* where that call is
    run,            \* the runCommandAsync in progress: arguments, accumulators, outcome
    tmpFile,        \* the temporary snapshot file: "none", "exists", "removed"
    managerDir,     \* whether the manager directory exists under the target's custom_nodes
    cmPending,      \* the exception restoreCustomNodes is propagating, <<>> when none
    cmResult,       \* what the caller of the last call got
    helperCalls     \* the helper invocations of the last call, in order

VARIABLES
    \* the install validation engine
    valPc,              \* "idle", "validating", "published", "repairing", "done"
    basePath,           \* the configured base path
    fsAccess,           \* the paths fs.access succeeds on
    gitProbe,           \* what the probe of git resolves to
    platform,           \* process.platform
    venvState,          \* the state of the virtual environment
    pending,            \* the items of the pass in progress, "unset" until checked
    validationUpdates,  \* the reports published to the window, in order
    onMaintenancePage,  \* whether the maintenance page has been loaded
    repairs,            \* the number of repair actions accepted
    repaired,           \* the items a repair action has put right
    installation        \* what ensureInstalled returned

VARIABLES
    \* DevOverrides
    isPackaged,         \* app.isPackaged
    devModeSwitch,      \* app.commandLine.hasSwitch('dev-mode')
    processEnv,         \* process.env of each launch
    devOverrides,       \* the DevOverrides object of each launch
    externalServer      \* what useExternalServer returned to each launch

VARIABLES
    \* TestEnvironment
    destroyEnvironmentOnDispose,  \* the constructor argument
    configFile,         \* config.json: whether it exists, and its basePath
    venvDir,            \* what is at .venv: "original", "recreated", "absent"
    invalidVenvDir,     \* what is at .venv-invalid
    launchArgs,         \* the keys of Comfy.Server.LaunchArgs in comfy.settings.json
    haveBroken,         \* #haveBrokenInstallPath, #haveBrokenVenv, #haveBrokenServerStart
    disposed,           \* #disposed
    disposePc,          \* where Symbol.asyncDispose is
    installLocation,    \* whether the temporary install location exists
    broken,             \* the states a break method has broken
    breakCalls,         \* the number of calls of the break methods
    teCall              \* the last call of a break or restore method

VARIABLES
    \* rotateLogFiles
    maxFiles,           \* the maxFiles argument of every rotation
    logClock,           \* the instant new Date() yields
    currentLog,         \* per base name: whether the current log file exists
    rotatedLogs         \* per base name: the instants of its timestamped files

VARIABLES
    \* findAvailablePort
    portStart,          \* the startPort argument
    portEnd,            \* the endPort argument
    portPc,             \* "idle", "tryPort", "listen", "closing", "settled"
    portNow,            \* the port argument of the tryPort in progress
    portAttempts,       \* the listen calls so far, in order: the port and whether it succeeded
    portPromise         \* the returned promise: its state and, when resolved, its value

verVars == <<versionA, versionB, verPc, cmpResult, belowResult>>

appVars == <<initialized, isQuitting, ipcRegistered, loaded, installStage, listeners,
             quitListeners, callStack, lastCall, received, emits>>

probeVars == <<proc, timer, promise>>

valVars == <<valPc, basePath, fsAccess, gitProbe, platform, venvState, pending,
             validationUpdates, onMaintenancePage, repairs, repaired, installation>>

devVars == <<isPackaged, devModeSwitch, processEnv, devOverrides, externalServer>>

teVars == <<destroyEnvironmentOnDispose, configFile, venvDir, invalidVenvDir, launchArgs,
            haveBroken, disposed, disposePc, installLocation, broken, breakCalls,
            teCall>>

logVars == <<maxFiles, logClock, currentLog, rotatedLogs>>

portVars == <<portStart, portEnd, portPc, portNow, portAttempts, portPromise>>

cmVars == <<cmOp, cmFrom, cmPc, run, tmpFile, managerDir, cmPending, cmResult, helperCalls>>

vars == <<verVars, appVars, probeVars, cmVars, valVars, devVars, teVars, logVars, portVars>>

\* What the steps of one component leave alone: the other components.
notVer == <<appVars, probeVars, cmVars, valVars, devVars, teVars, logVars, portVars>>

notApp == <<verVars, probeVars, cmVars, valVars, devVars, teVars, logVars, portVars>>

notProbe == <<verVars, appVars, cmVars, valVars, devVars, teVars, logVars, portVars>>

notCm == <<verVars, appVars, probeVars, valVars, devVars, teVars, logVars, portVars>>

notVal == <<verVars, appVars, probeVars, cmVars, devVars, teVars, logVars, portVars>>

notDev == <<verVars, appVars, probeVars, cmVars, valVars, teVars, logVars, portVars>>

notTe == <<verVars, appVars, probeVars, cmVars, valVars, devVars, logVars, portVars>>

notLog == <<verVars, appVars, probeVars, cmVars, valVars, devVars, teVars, portVars>>

notPort == <<verVars, appVars, probeVars, cmVars, valVars, devVars, teVars, logVars>>

(***************************************************************************)
(* Strings are sequences of one-character strings.                         *)
(***************************************************************************)
MaxLen == 3

DigitChars == <<"0", "1", "2", "3", "4", "5", "6", "7", "8", "9">>

Digits == {DigitChars[i] : i \in 1..Len(DigitChars)}

\* The characters the regular expression /[+.-]/ matches.
Separators == {"+", ".", "-"}

\* The characters the enumerated inputs are built from: two digits, a
\* separator and a letter (a component holding it is not a number).
Alphabet == {"0", "1", ".", "a"}

\* A missing argument (undefined or null).
Undefined == <<"undefined">>

Max(x, y) == IF x >= y THEN x ELSE y

Min(x, y) == IF x <= y THEN x ELSE y

StringsUpTo(n) == UNION {[1..k -> Alphabet] : k \in 0..n}

\* The versions of the driver test table, and the padded form of its minimum.
DocumentedVersions ==
    { <<"5","7","9",".","0",".","0">>,
      <<"5","8","0",".","0",".","0">>,
      <<"5","8","0",".","0",".","1">>,
      <<"5","8","1",".","0">>,
      <<"5","8","0">> }

\* '1.x.3': a non-numeric component between numeric ones.
OneXThree == <<"1", ".", "a", ".", "3">>

\* Further inputs: the other separators, and numbers whose order as numbers
\* differs from their order as strings.
SampleVersions ==
    { OneXThree, <<"1", ".", "3">>, <<"1", "+", "2">>, <<"1", "-", "1">>,
      <<"1", ".", "2", "-", "a">>, <<"1", "0">>, <<"2">>,
      <<"0", ".", "0", ".", "0">> }

VersionInputs ==
    StringsUpTo(MaxLen) \cup DocumentedVersions \cup SampleVersions \cup {Undefined}

(***************************************************************************)
(* String.prototype.split(/[+.-]/): the pieces between separators; a       *)
(* string without separator is one piece, also when it is empty.           *)
(***************************************************************************)
RECURSIVE Split(_)
Split(s) ==
    IF \A i \in 1..Len(s) : s[i] \notin Separators
    THEN <<s>>
    ELSE LET k == CHOOSE i \in 1..Len(s) :
                    /\ s[i] \in Separators
                    /\ \A j \in 1..(i - 1) : s[j] \notin Separators
         IN  <<SubSeq(s, 1, k - 1)>> \o Split(SubSeq(s, k + 1, Len(s)))

DigitVal(c) == (CHOOSE i \in 1..Len(DigitChars) : DigitChars[i] = c) - 1

RECURSIVE DecimalValue(_)
DecimalValue(ds) ==
    IF ds = <<>> THEN 0
    ELSE DecimalValue(SubSeq(ds, 1, Len(ds) - 1)) * 10 + DigitVal(ds[Len(ds)])

\* Number(piece) on the pieces the alphabet can form: the empty string is 0,
\* a digit string is its decimal value, anything else is NaN.
ToNumber(piece) ==
    IF \A i \in 1..Len(piece) : piece[i] \in Digits
    THEN [isNaN |-> FALSE, value |-> DecimalValue(piece)]
    ELSE [isNaN |-> TRUE, value |-> 0]

SelectNumbers(ns) == SelectSeq(ns, LAMBDA n : ~n.isNaN)

\* normalize: split, map(Number), filter(not NaN). Calling .split on a
\* missing value throws a TypeError.
normalize(version) ==
    IF version = Undefined
    THEN [threw |-> TRUE, parts |-> <<>>]
    ELSE LET pieces == Split(version)
             nums == [i \in 1..Len(pieces) |-> ToNumber(pieces[i])]
             kept == SelectNumbers(nums)
         IN  [threw |-> FALSE, parts |-> [i \in 1..Len(kept) |-> kept[i].value]]

\* Without the default a missing version reaches normalize as it is.
DefaultVersionMissing(v) == v

\* versionA ??= '0.0.0'
DefaultVersion(v) == IF v = Undefined THEN <<"0", ".", "0", ".", "0">> ELSE v

\* A loop that stops at the shorter list.
LoopBoundMin(aParts, bParts) == Min(Len(aParts), Len(bParts))

\* The loop bound: Math.max(aParts.length, bParts.length).
LoopBound(aParts, bParts) == Max(Len(aParts), Len(bParts))

\* parts[i] ?? 0
PartOrZero(parts, i) == IF i <= Len(parts) THEN parts[i] ELSE 0

\* A comparison with <= for <: an equal pair already decides.
RECURSIVE CompareFromNotStrict(_, _, _)
CompareFromNotStrict(aParts, bParts, i) ==
    IF i > LoopBound(aParts, bParts) THEN 0
    ELSE LET aPart == PartOrZero(aParts, i)
             bPart == PartOrZero(bParts, i)
         IN  IF aPart <= bPart THEN -1
             ELSE IF aPart > bPart THEN 1
             ELSE CompareFromNotStrict(aParts, bParts, i + 1)

RECURSIVE CompareFrom(_, _, _)
CompareFrom(aParts, bParts, i) ==
    IF i > LoopBound(aParts, bParts) THEN 0
    ELSE LET aPart == PartOrZero(aParts, i)
             bPart == PartOrZero(bParts, i)
         IN  IF aPart < bPart THEN -1
             ELSE IF aPart > bPart THEN 1
             ELSE CompareFrom(aParts, bParts, i + 1)

compareVersions(a, b) ==
    LET na == normalize(DefaultVersion(a))
        nb == normalize(DefaultVersion(b))
    IN  IF na.threw \/ nb.threw
        THEN [threw |-> TRUE, value |-> 0]
        ELSE [threw |-> FALSE, value |-> CompareFrom(na.parts, nb.parts, 1)]

\* isNvidiaDriverBelowMinimum(version, minimum): below when the comparison
\* with the minimum is negative.
isNvidiaDriverBelowMinimum(version, minimum) ==
    LET c == compareVersions(version, minimum)
    IN  [threw |-> c.threw, value |-> (~c.threw /\ c.value < 0)]

NoResult == [threw |-> FALSE, value |-> 0]

NoVerdict == [threw |-> FALSE, value |-> FALSE]

VerInit ==
    /\ versionA \in VersionInputs
    /\ versionB \in VersionInputs
    /\ verPc = "input"
    /\ cmpResult = NoResult
    /\ belowResult = NoVerdict

\* No comparison is in progress.
VerIdle ==
    /\ versionA = Undefined
    /\ versionB = Undefined
    /\ verPc = "checked"
    /\ cmpResult = NoResult
    /\ belowResult = NoVerdict

CompareVersions ==
    /\ verPc = "input"
    /\ cmpResult' = compareVersions(versionA, versionB)
    /\ verPc' = "compared"
    /\ UNCHANGED <<versionA, versionB, belowResult>>
    /\ UNCHANGED notVer

IsBelowMinimum ==
    /\ verPc = "compared"
    /\ belowResult' = isNvidiaDriverBelowMinimum(versionA, versionB)
    /\ verPc' = "checked"
    /\ UNCHANGED <<versionA, versionB, cmpResult>>
    /\ UNCHANGED notVer

VerNext == CompareVersions \/ IsBelowMinimum

(***************************************************************************)
(* The app state singleton (AppState, initializeAppState) and the install  *)
(* stage tracker. AppState is an EventEmitter: emit calls the listeners of *)
(* an event synchronously, in registration order, from a copy of the list  *)
(* taken when emit starts; a once-listener is removed before it runs. A    *)
(* listener may call back into the app state before it returns.            *)
(***************************************************************************)
MaxSubs == 2

MaxListeners == 2

MaxDepth == 2

\* The InstallStage enumeration, in its declared order.
InstallStage ==
    << "idle", "app_initializing", "checking_existing_install",
       "hardware_validation", "git_check",
       "welcome_screen", "install_options_selection",
       "creating_directories", "initializing_config", "python_environment_setup",
       "installing_requirements", "installing_pytorch",
       "installing_hanzo_studio_requirements", "installing_manager_requirements",
       "migrating_custom_nodes",
       "maintenance_mode", "starting_server", "ready", "error" >>

StageIndex(stage) == CHOOSE i \in 1..Len(InstallStage) : InstallStage[i] = stage

\* A helper that drops the options it is given.
createInstallStageInfoBare(stage, progress) == [stage |-> stage, progress |-> <<>>]

\* createInstallStageInfo(stage, { progress }): progress is <<>> when undefined.
createInstallStageInfo(stage, progress) == [stage |-> stage, progress |-> progress]

\* The stage infos the callers of setInstallStage pass.
StageInputs ==
    {createInstallStageInfo(st, <<>>) : st \in {"idle", "git_check", "ready", "error"}}

Subs == 1..MaxSubs

OneShotEvents == {"ipcRegistered", "loaded"}

Events == OneShotEvents \cup {"installStageChanged"}

\* The listener that initialize() registers with once().
Internal == [id |-> 0, once |-> TRUE]

Subscriber(sub) == [id |-> sub, once |-> FALSE]

\* What a top-level call showed its caller: the operation and how it ended;
\* for an emit call whether it emitted and which one-shot calls its listeners
\* made meanwhile (reentered); for setInstallStage the argument, the stage
\* before the call, the subscribers registered when it was called, the
\* deliveries it made itself, the stages its listeners set meanwhile and,
\* per subscriber, the stage its handler was last called with during the
\* call (last); for useAppState the object returned (value).
NoCall ==
    [op |-> "none", outcome |-> "none", emitted |-> FALSE, reentered |-> <<>>,
     arg |-> <<>>, prev |-> <<>>, snapshot |-> <<>>, delivered |-> <<>>,
     nested |-> <<>>, last |-> [sub \in Subs |-> <<>>], value |-> <<>>]

Call(op, outcome) == [NoCall EXCEPT !.op = op, !.outcome = outcome]

Bump(n) == IF n < 2 THEN n + 1 ELSE n

RECURSIVE RemoveFirst(_, _)
RemoveFirst(seq, x) ==
    IF seq = <<>> THEN <<>>
    ELSE IF Head(seq) = x THEN Tail(seq)
    ELSE <<Head(seq)>> \o RemoveFirst(Tail(seq), x)

Ids(ls) == [i \in 1..Len(ls) |-> ls[i].id]

SubscribersOf(event) == {i \in 1..Len(listeners[event]) : listeners[event][i].id # 0}

\* The number of listeners the subscribers have registered.
Registrations ==
    Cardinality(SubscribersOf("ipcRegistered")) + Cardinality(SubscribersOf("loaded"))
    + Cardinality(SubscribersOf("installStageChanged"))

AppInit ==
    /\ initialized = FALSE
    /\ isQuitting = FALSE
    /\ ipcRegistered = FALSE
    /\ loaded = FALSE
    /\ installStage = createInstallStageInfo("idle", <<0>>)
    /\ listeners = [e \in Events |-> <<>>]
    /\ quitListeners = 0
    /\ callStack = <<>>
    /\ lastCall = NoCall
    /\ received = [sub \in Subs |-> [e \in OneShotEvents |-> 0]]
    /\ emits = [e \in OneShotEvents |-> 0]

\* An initialize() that forgets the once-listener of loaded.
AppStateInitializeNoLoaded ==
    /\ quitListeners' = quitListeners + 1
    /\ listeners' = [listeners EXCEPT !["ipcRegistered"] = Append(@, Internal)]

\* AppState.initialize(): app.once('before-quit'), this.once('loaded'),
\* this.once('ipcRegistered').
AppStateInitialize ==
    /\ quitListeners' = quitListeners + 1
    /\ listeners' = [listeners EXCEPT !["loaded"] = Append(@, Internal),
                                      !["ipcRegistered"] = Append(@, Internal)]

\* A variant that throws only after appState.initialize() has run.
InitializeAppStateCheckLast ==
    /\ callStack = <<>>
    /\ quitListeners < 2
    /\ AppStateInitialize
    /\ initialized' = TRUE
    /\ lastCall' = Call("initializeAppState", IF initialized THEN "threw" ELSE "returned")
    /\ UNCHANGED <<isQuitting, ipcRegistered, loaded, installStage, callStack,
                   received, emits>>
    /\ UNCHANGED notApp

\* initializeAppState(): throws AppStartError when already initialized.
InitializeAppState ==
    /\ callStack = <<>>
    /\ IF initialized
       THEN /\ lastCall' = Call("initializeAppState", "threw")
            /\ UNCHANGED <<initialized, listeners, quitListeners>>
       ELSE /\ AppStateInitialize
            /\ initialized' = TRUE
            /\ lastCall' = Call("initializeAppState", "returned")
    /\ UNCHANGED <<isQuitting, ipcRegistered, loaded, installStage, callStack,
                   received, emits>>
    /\ UNCHANGED notApp

\* const appState = new AppState(): the one app-state object of the module.
appState == "appState"

\* A variant that hands out the singleton without testing the flag.
UseAppStateUnchecked ==
    /\ callStack = <<>>
    /\ lastCall' = [Call("useAppState", "returned") EXCEPT !.value = <<appState>>]
    /\ UNCHANGED <<initialized, isQuitting, ipcRegistered, loaded, installStage,
                   listeners, quitListeners, callStack, received, emits>>
    /\ UNCHANGED notApp

\* useAppState(): throws AppStartError unless initialized, else returns the
\* singleton.
UseAppState ==
    /\ callStack = <<>>
    /\ lastCall' = IF initialized
                   THEN [Call("useAppState", "returned") EXCEPT !.value = <<appState>>]
                   ELSE Call("useAppState", "threw")
    /\ UNCHANGED <<initialized, isQuitting, ipcRegistered, loaded, installStage,
                   listeners, quitListeners, callStack, received, emits>>
    /\ UNCHANGED notApp

\* The electron app emits 'before-quit': the once-handlers set isQuitting.
BeforeQuit ==
    /\ callStack = <<>>
    /\ quitListeners > 0
    /\ isQuitting' = TRUE
    /\ quitListeners' = 0
    /\ UNCHANGED <<initialized, ipcRegistered, loaded, installStage, listeners,
                   callStack, lastCall, received, emits>>
    /\ UNCHANGED notApp

\* useAppState().on(event, listener): a subscriber registers for an event.
\* The app state is reachable only through useAppState, that is once
\* initialized; a subscriber registers at most once per event.
Subscribe(sub, event) ==
    /\ callStack = <<>>
    /\ initialized
    /\ Registrations < MaxListeners
    /\ \A i \in 1..Len(listeners[event]) : listeners[event][i].id # sub
    /\ listeners' = [listeners EXCEPT ![event] = Append(@, Subscriber(sub))]
    /\ UNCHANGED <<initialized, isQuitting, ipcRegistered, loaded, installStage,
                   quitListeners, callStack, lastCall, received, emits>>
    /\ UNCHANGED notApp

\* useAppState().off(event, listener)
Unsubscribe(sub, event) ==
    /\ callStack = <<>>
    /\ initialized
    /\ \E i \in 1..Len(listeners[event]) : listeners[event][i] = Subscriber(sub)
    /\ listeners' = [listeners EXCEPT ![event] = RemoveFirst(@, Subscriber(sub))]
    /\ UNCHANGED <<initialized, isQuitting, ipcRegistered, loaded, installStage,
                   quitListeners, callStack, lastCall, received, emits>>
    /\ UNCHANGED notApp

Flag(event) == IF event = "loaded" THEN loaded ELSE ipcRegistered

EmitOp(event) == IF event = "loaded" THEN "emitLoaded" ELSE "emitIpcRegistered"

\* A guard that lets every call emit.
ShouldEmitAlways(flag) == TRUE

\* if (!this.ipcRegistered) ..., if (!this.loaded) ...
ShouldEmit(flag) == ~flag

\* An emit that calls the listeners last registered first.
FrameReversed(event, arg) ==
    [event |-> event, arg |-> arg,
     pending |-> [i \in 1..Len(listeners[event]) |->
                     listeners[event][Len(listeners[event]) + 1 - i]]]

\* this.emit(event, arg): a frame holding the copy of the listener list.
Frame(event, arg) == [event |-> event, arg |-> arg, pending |-> listeners[event]]

\* emitIpcRegistered() / emitLoaded(), called by the bootstrap sequence.
EmitOneShot(event) ==
    /\ callStack = <<>>
    /\ initialized
    /\ IF ShouldEmit(Flag(event))
       THEN /\ callStack' = <<Frame(event, <<>>)>>
            /\ emits' = [emits EXCEPT ![event] = Bump(@)]
            /\ lastCall' = [Call(EmitOp(event), "running") EXCEPT !.emitted = TRUE]
       ELSE /\ lastCall' = Call(EmitOp(event), "returned")
            /\ UNCHANGED <<callStack, emits>>
    /\ UNCHANGED <<initialized, isQuitting, ipcRegistered, loaded, installStage,
                   listeners, quitListeners, received>>
    /\ UNCHANGED notApp

EmitIpcRegistered == EmitOneShot("ipcRegistered")

EmitLoaded == EmitOneShot("loaded")

\* A setter that refuses to move to an earlier stage, error excepted.
StageAfterSetMonotonic(current, stage) ==
    IF StageIndex(stage.stage) < StageIndex(current.stage) /\ stage.stage # "error"
    THEN current ELSE stage

\* this.installStage = stage
StageAfterSet(current, stage) == stage

\* setInstallStage(stage), called by the bootstrap sequence.
SetInstallStage(stage) ==
    /\ callStack = <<>>
    /\ initialized
    /\ installStage' = StageAfterSet(installStage, stage)
    /\ callStack' = <<Frame("installStageChanged", stage)>>
    /\ lastCall' = [Call("setInstallStage", "running") EXCEPT
                        !.arg = stage, !.prev = installStage,
                        !.snapshot = Ids(listeners["installStageChanged"])]
    /\ UNCHANGED <<initialized, isQuitting, ipcRegistered, loaded, listeners,
                   quitListeners, received, emits>>
    /\ UNCHANGED notApp

(***************************************************************************)
(* One step of an emit in progress: the next listener of the innermost     *)
(* frame runs. What a subscriber does in its handler is its own choice:    *)
(* return, throw, or call back into the app state before returning.        *)
(***************************************************************************)
Top == callStack[Len(callStack)]

NextListener == Head(Top.pending)

\* The stack with the next listener of the innermost frame taken off.
Taken == [callStack EXCEPT ![Len(callStack)].pending = Tail(@)]

SubscriberRuns ==
    /\ callStack # <<>>
    /\ Top.pending # <<>>
    /\ NextListener.id # 0

\* What the subscriber's handler observes when it is called.
Observe ==
    /\ received' = IF Top.event \in OneShotEvents
                   THEN [received EXCEPT ![NextListener.id][Top.event] = Bump(@)]
                   ELSE received
    /\ UNCHANGED <<initialized, isQuitting, ipcRegistered, loaded, listeners,
                   quitListeners>>

Delivered(call) ==
    IF Top.event = "installStageChanged"
    THEN [call EXCEPT !.delivered = IF Len(callStack) = 1
                                    THEN Append(@, <<NextListener.id, Top.arg>>)
                                    ELSE @,
                      !.last[NextListener.id] = <<Top.arg>>]
    ELSE call

\* The once-listeners of initialize(): () => { this.loaded = true } and
\* () => { this.ipcRegistered = true }; once() removes them before they run.
InvokeInternal ==
    /\ callStack # <<>>
    /\ Top.pending # <<>>
    /\ NextListener = Internal
    /\ listeners' = [listeners EXCEPT ![Top.event] = RemoveFirst(@, Internal)]
    /\ loaded' = IF Top.event = "loaded" THEN TRUE ELSE loaded
    /\ ipcRegistered' = IF Top.event = "ipcRegistered" THEN TRUE ELSE ipcRegistered
    /\ callStack' = Taken
    /\ UNCHANGED <<initialized, isQuitting, installStage, quitListeners, lastCall,
                   received, emits>>
    /\ UNCHANGED notApp

SubscriberReturns ==
    /\ SubscriberRuns
    /\ Observe
    /\ callStack' = Taken
    /\ lastCall' = Delivered(lastCall)
    /\ UNCHANGED <<installStage, emits>>
    /\ UNCHANGED notApp

\* An exception of a listener leaves emit and every caller up to the top.
SubscriberThrows ==
    /\ SubscriberRuns
    /\ Observe
    /\ callStack' = <<>>
    /\ lastCall' = [Delivered(lastCall) EXCEPT !.outcome = "threw"]
    /\ UNCHANGED <<installStage, emits>>
    /\ UNCHANGED notApp

\* The handler calls emitIpcRegistered() or emitLoaded().
SubscriberEmits(event) ==
    /\ SubscriberRuns
    /\ Len(callStack) < MaxDepth
    /\ Observe
    /\ IF ShouldEmit(Flag(event))
       THEN /\ callStack' = Append(Taken, Frame(event, <<>>))
            /\ emits' = [emits EXCEPT ![event] = Bump(@)]
       ELSE /\ callStack' = Taken
            /\ UNCHANGED emits
    /\ lastCall' = [Delivered(lastCall) EXCEPT !.reentered = Append(@, event)]
    /\ UNCHANGED installStage
    /\ UNCHANGED notApp

\* The handler calls setInstallStage(stage).
SubscriberSetsStage(stage) ==
    /\ SubscriberRuns
    /\ Len(callStack) < MaxDepth
    /\ Observe
    /\ installStage' = StageAfterSet(installStage, stage)
    /\ callStack' = Append(Taken, Frame("installStageChanged", stage))
    /\ lastCall' = [Delivered(lastCall) EXCEPT !.nested = Append(@, stage)]
    /\ UNCHANGED emits
    /\ UNCHANGED notApp

\* emit has called every listener of its copy: the call returns.
Return ==
    /\ callStack # <<>>
    /\ Top.pending = <<>>
    /\ callStack' = SubSeq(callStack, 1, Len(callStack) - 1)
    /\ lastCall' = IF Len(callStack) = 1
                   THEN [lastCall EXCEPT !.outcome = "returned"]
                   ELSE lastCall
    /\ UNCHANGED <<initialized, isQuitting, ipcRegistered, loaded, installStage,
                   listeners, quitListeners, received, emits>>
    /\ UNCHANGED notApp

LifecycleNext ==
    \/ InitializeAppState
    \/ UseAppState
    \/ BeforeQuit
    \/ \E sub \in Subs, event \in OneShotEvents : Subscribe(sub, event)
    \/ \E sub \in Subs, event \in OneShotEvents : Unsubscribe(sub, event)
    \/ EmitIpcRegistered
    \/ EmitLoaded
    \/ \E stage \in StageInputs : SetInstallStage(stage)
    \/ InvokeInternal
    \/ SubscriberReturns
    \/ SubscriberThrows
    \/ \E event \in OneShotEvents : SubscriberEmits(event)
    \/ \E stage \in StageInputs : SubscriberSetsStage(stage)
    \/ Return

StageNext ==
    \/ InitializeAppState
    \/ UseAppState
    \/ BeforeQuit
    \/ EmitIpcRegistered
    \/ EmitLoaded
    \/ InvokeInternal
    \/ \E sub \in Subs : Subscribe(sub, "installStageChanged")
    \/ \E sub \in Subs : Unsubscribe(sub, "installStageChanged")
    \/ \E stage \in StageInputs : SetInstallStage(stage)
    \/ SubscriberReturns
    \/ SubscriberThrows
    \/ \E stage \in StageInputs : SubscriberSetsStage(stage)
    \/ Return

\* The numbers a caller may pass as progress: any number is of the
\* parameter's type.
ProgressSamples == {-1, 0, 50, 100, 101}

\* The stage infos createInstallStageInfo builds for these, and for no
\* progress.
ProgressInputs ==
    {createInstallStageInfo("installing_requirements", p) :
        p \in {<<>>} \cup {<<n>> : n \in ProgressSamples}}

\* The stage tracker with callers that report progress.
ProgressNext ==
    \/ InitializeAppState
    \/ \E sub \in Subs : Subscribe(sub, "installStageChanged")
    \/ \E stage \in ProgressInputs : SetInstallStage(stage)
    \/ SubscriberReturns
    \/ \E stage \in ProgressInputs : SubscriberSetsStage(stage)
    \/ Return

(***************************************************************************)
(* canExecuteShellCommand(command, timeout): exec starts the command, a    *)
(* timer is set, and the returned promise is settled by whichever runs     *)
(* first, the 'exit' listener or the timer callback. Probes are            *)
(* independent of each other and may overlap. The timer runs no earlier    *)
(* than its timeout; when the process ends is up to the process.           *)
(***************************************************************************)
MaxProbes == 2

Probes == 1..MaxProbes

\* The exit codes a probed command ends with by itself.
ExitCodes == {0, 1, 127}

\* The (code) argument of the 'exit' event: <<c>> for an exit code, <<>> for
\* null, when a signal ended the process.
ExitArgs == {<<c>> : c \in ExitCodes} \cup {<<>>}

NoProc == [state |-> "none", code |-> <<>>, signalled |-> FALSE]

NoPromise == [state |-> "none", value |-> FALSE]

ProbeInit ==
    /\ proc = [i \in Probes |-> NoProc]
    /\ timer = [i \in Probes |-> "none"]
    /\ promise = [i \in Probes |-> NoPromise]

\* const proc = exec(command); new Promise(...): setTimeout and
\* proc.on('exit') are set up before anything else can run.
CanExecuteShellCommand(i) ==
    /\ proc[i].state = "none"
    /\ proc' = [proc EXCEPT ![i].state = "running"]
    /\ timer' = [timer EXCEPT ![i] = "armed"]
    /\ promise' = [promise EXCEPT ![i].state = "pending"]
    /\ UNCHANGED notProbe

\* The command ends: by itself with an exit code, or by a signal. After
\* kill() has signalled it, it may still end with a code of its own.
ProcessEnds(i, code) ==
    /\ proc[i].state = "running"
    /\ proc' = [proc EXCEPT ![i].state = "ended", ![i].code = code]
    /\ UNCHANGED <<timer, promise>>
    /\ UNCHANGED notProbe

\* A promise that the last call settles.
SettleOverwrites(p, state, value) == [state |-> state, value |-> value]

\* resolve(value) and reject(): only the first settles the promise.
Settle(p, state, value) ==
    IF p.state = "pending" THEN [state |-> state, value |-> value] ELSE p

\* A listener that resolves with true whatever the code.
ExitValueAlwaysTrue(code) == TRUE

\* (code) => resolve(code === 0)
ExitValue(code) == code = <<0>>

\* The 'exit' event of an ended process: proc.on('exit', ...) runs.
ExitEvent(i) ==
    /\ proc[i].state = "ended"
    /\ proc' = [proc EXCEPT ![i].state = "exited"]
    /\ promise' = [promise EXCEPT ![i] = Settle(@, "resolved", ExitValue(proc[i].code))]
    /\ UNCHANGED timer
    /\ UNCHANGED notProbe

\* The timer callback: proc.kill(), which signals a process that still
\* runs, then reject(new Error('Timed out ...')). Nothing clears the timer,
\* so it also runs after the process has exited.
TimerFires(i) ==
    /\ timer[i] = "armed"
    /\ timer' = [timer EXCEPT ![i] = "fired"]
    /\ proc' = [proc EXCEPT ![i].signalled = (proc[i].state = "running")]
    /\ promise' = [promise EXCEPT ![i] = Settle(@, "rejected", FALSE)]
    /\ UNCHANGED notProbe

ProbeNext ==
    \/ \E i \in Probes : CanExecuteShellCommand(i)
    \/ \E i \in Probes, code \in ExitArgs : ProcessEnds(i, code)
    \/ \E i \in Probes : ExitEvent(i)
    \/ \E i \in Probes : TimerFires(i)

(***************************************************************************)
(* CmCli: runCommandAsync runs the extension-manager CLI in the virtual    *)
(* environment and collects its output; restoreCustomNodes saves a         *)
(* snapshot of a source installation into a temporary file and restores it *)
(* into the target installation. One call runs at a time.                  *)
(***************************************************************************)
MaxChunks == 2

\* The exit codes of the helper process.
HelperExitCodes == {0, 1, 2}

\* ${exitCode} in the template string.
CodeText(code) == <<"0", "1", "2">>[code + 1]

StdoutChunks == {"out-a", "out-b"}

StderrChunks == {"err-a", "err-b"}

\* this.virtualEnvironment.basePath
BasePath == "/target"

\* getAppResourcesPath()
ResourcesPath == "/resources"

\* The source installations restoreCustomNodes is called with.
FromDirs == {"/source", BasePath}

\* path.join(dir, name)
Join(dir, name) == dir \o "/" \o name

\* The file fileSync({ postfix: '.json' }) creates.
TmpName == "/tmp/tmp-1.json"

\* A merge that passes on the default variables only, with the caller's values.
SpreadDropsOthers(defaults, env) ==
    [k \in DOMAIN defaults |-> IF k \in DOMAIN env THEN env[k] ELSE defaults[k]]

\* A merge in which the defaults win over the caller's entries.
SpreadDefaultsWin(defaults, env) ==
    [k \in (DOMAIN defaults) \cup (DOMAIN env) |->
        IF k \in DOMAIN defaults THEN defaults[k] ELSE env[k]]

\* An environment is a function from variable names to values;
\* { COMFYUI_PATH: basePath, ...env }: the caller's entries win.
Spread(defaults, env) ==
    [k \in (DOMAIN defaults) \cup (DOMAIN env) |->
        IF k \in DOMAIN env THEN env[k] ELSE defaults[k]]

EmptyEnv == [k \in {} |-> ""]

Env1(k, v) == [x \in {k} |-> v]

Env2(k1, v1, k2, v2) == [x \in {k1, k2} |-> IF x = k1 THEN v1 ELSE v2]

\* No source installation: the call is not restoreCustomNodes.
NoDir == ""

\* cwd is undefined.
NoCwd == "(undefined)"

NoRun ==
    [status |-> "none", args |-> <<>>, checkExit |-> TRUE, env |-> EmptyEnv,
     cwd |-> NoCwd, exited |-> FALSE, exitCode |-> 0, output |-> <<>>, error |-> <<>>,
     written |-> <<>>, forwarded |-> <<>>, message |-> <<>>]

\* runCommandAsync(args, callbacks, env, checkExit, cwd) up to the start of
\* the helper: output = '', error = '', ENV = { COMFYUI_PATH, ...env }.
NewRun(args, env, checkExit, cwd) ==
    [NoRun EXCEPT !.status = "starting", !.args = args, !.checkExit = checkExit,
                  !.env = Spread(Env1("COMFYUI_PATH", BasePath), env), !.cwd = cwd]

\* this.cliPath
cliPath ==
    Join(Join(Join(Join(ResourcesPath, "Hanzo Studio"), "custom_nodes"), "Hanzo Manager"),
         "cm-cli.py")

\* The manager directory restoreCustomNodes removes from the target.
managerPath == Join(Join(BasePath, "custom_nodes"), "Hanzo Manager")

\* buildCommandArgs: the CLI script when it is accessible, else the module.
buildCommandArgs(args, accessible) ==
    IF accessible
    THEN <<cliPath>> \o args
    ELSE <<"-m", "hanzo_studio_manager.cm_cli">> \o args

\* A stdout handler that keeps the chunk and does not forward it.
OnStdoutUnforwarded(r, chunk) ==
    [r EXCEPT !.output = Append(@, chunk),
              !.written = Append(@, <<"stdout", chunk>>)]

\* onStdout: output += message; callbacks?.onStdout?.(message)
OnStdout(r, chunk) ==
    [r EXCEPT !.output = Append(@, chunk),
              !.forwarded = Append(@, <<"onStdout", chunk>>),
              !.written = Append(@, <<"stdout", chunk>>)]

\* A stderr handler that forwards the chunk and does not keep it.
OnStderrNotKept(r, chunk) ==
    [r EXCEPT !.forwarded = Append(@, <<"onStderr", chunk>>),
              !.written = Append(@, <<"stderr", chunk>>)]

\* onStderr: error += message; callbacks?.onStderr?.(message)
OnStderr(r, chunk) ==
    [r EXCEPT !.error = Append(@, chunk),
              !.forwarded = Append(@, <<"onStderr", chunk>>),
              !.written = Append(@, <<"stderr", chunk>>)]

\* `Error calling cm-cli: \nExit code: ${exitCode}\nOutput:${output}\n\nError:${error}`
ErrorMessage(exitCode, output, error) ==
    <<"Error calling cm-cli: \nExit code: ", CodeText(exitCode), "\nOutput:">>
    \o output \o <<"\n\nError:">> \o error

\* A runner that returns the output whatever the exit code.
FinishIgnoresExit(r, exitCode) ==
    [r EXCEPT !.status = "returned", !.exited = TRUE, !.exitCode = exitCode]

\* A runner that checks the exit code whatever checkExit says.
FinishAlwaysChecks(r, exitCode) ==
    IF exitCode # 0
    THEN [r EXCEPT !.status = "threw", !.exited = TRUE, !.exitCode = exitCode,
                   !.message = ErrorMessage(exitCode, r.output, r.error)]
    ELSE [r EXCEPT !.status = "returned", !.exited = TRUE, !.exitCode = exitCode]

\* if (checkExit && exitCode !== 0) throw new Error(...); return output
Finish(r, exitCode) ==
    IF r.checkExit /\ exitCode # 0
    THEN [r EXCEPT !.status = "threw", !.exited = TRUE, !.exitCode = exitCode,
                   !.message = ErrorMessage(exitCode, r.output, r.error)]
    ELSE [r EXCEPT !.status = "returned", !.exited = TRUE, !.exitCode = exitCode]

NoOutcome == [state |-> "none", value |-> <<>>]

CmInit ==
    /\ cmOp = "none"
    /\ cmFrom = NoDir
    /\ cmPc = "idle"
    /\ run = NoRun
    /\ tmpFile = "none"
    /\ managerDir \in BOOLEAN
    /\ cmPending = <<>>
    /\ cmResult = NoOutcome
    /\ helperCalls = <<>>

CmIdle ==
    /\ cmOp = "none"
    /\ cmFrom = NoDir
    /\ cmPc = "idle"
    /\ run = NoRun
    /\ tmpFile = "none"
    /\ managerDir = FALSE
    /\ cmPending = <<>>
    /\ cmResult = NoOutcome
    /\ helperCalls = <<>>

\* The arguments of the direct calls of runCommandAsync.
DirectEnvs ==
    { EmptyEnv,
      Env2("COMFYUI_PATH", "/source", "OTHER", "value") }

\* A caller runs a CLI command directly.
RunCommandAsync(env, checkExit) ==
    /\ cmPc = "idle"
    /\ cmOp' = "runCommandAsync"
    /\ cmFrom' = NoDir
    /\ cmPc' = "run"
    /\ run' = NewRun(<<"show", "installed">>, env, checkExit, NoCwd)
    /\ cmResult' = NoOutcome
    /\ helperCalls' = <<>>
    /\ UNCHANGED <<tmpFile, managerDir, cmPending>>
    /\ UNCHANGED notCm

\* await this.buildCommandArgs(args); runPythonCommandAsync(commandArgs,
\* callbacks, ENV, cwd) starts the helper.
HelperStarts(accessible) ==
    /\ run.status = "starting"
    /\ run' = [run EXCEPT !.status = "running"]
    /\ helperCalls' = Append(helperCalls,
                             [args |-> buildCommandArgs(run.args, accessible),
                              env |-> run.env, cwd |-> run.cwd,
                              exitCode |-> <<>>])
    /\ UNCHANGED <<cmOp, cmFrom, cmPc, tmpFile, managerDir, cmPending, cmResult>>
    /\ UNCHANGED notCm

\* runPythonCommandAsync rejects: the helper could not be started.
HelperFailsToStart ==
    /\ run.status = "starting"
    /\ run' = [run EXCEPT !.status = "threw", !.message = <<"spawn failed">>]
    /\ UNCHANGED <<cmOp, cmFrom, cmPc, tmpFile, managerDir, cmPending, cmResult, helperCalls>>
    /\ UNCHANGED notCm

HelperWritesStdout(chunk) ==
    /\ run.status = "running"
    /\ Len(run.written) < MaxChunks
    /\ run' = OnStdout(run, chunk)
    /\ UNCHANGED <<cmOp, cmFrom, cmPc, tmpFile, managerDir, cmPending, cmResult, helperCalls>>
    /\ UNCHANGED notCm

HelperWritesStderr(chunk) ==
    /\ run.status = "running"
    /\ Len(run.written) < MaxChunks
    /\ run' = OnStderr(run, chunk)
    /\ UNCHANGED <<cmOp, cmFrom, cmPc, tmpFile, managerDir, cmPending, cmResult, helperCalls>>
    /\ UNCHANGED notCm

\* The restore step of the helper (re)creates the manager directory under
\* the target's custom_nodes.
HelperCreatesManagerDir ==
    /\ run.status = "running"
    /\ cmPc = "restore"
    /\ ~managerDir
    /\ managerDir' = TRUE
    /\ UNCHANGED <<cmOp, cmFrom, cmPc, run, tmpFile, cmPending, cmResult, helperCalls>>
    /\ UNCHANGED notCm

\* The helper ends: runPythonCommandAsync resolves with its exit code and
\* runCommandAsync checks it.
HelperExits(exitCode) ==
    /\ run.status = "running"
    /\ run' = Finish(run, exitCode)
    /\ helperCalls' = [helperCalls EXCEPT ![Len(helperCalls)].exitCode = <<exitCode>>]
    /\ UNCHANGED <<cmOp, cmFrom, cmPc, tmpFile, managerDir, cmPending, cmResult>>
    /\ UNCHANGED notCm

\* The direct call is over: its caller gets the output or the error.
RunCommandAsyncEnds ==
    /\ cmPc = "run"
    /\ run.status \in {"returned", "threw"}
    /\ cmResult' = IF run.status = "returned"
                   THEN [state |-> "returned", value |-> run.output]
                   ELSE [state |-> "threw", value |-> run.message]
    /\ cmPc' = "idle"
    /\ UNCHANGED <<cmOp, cmFrom, run, tmpFile, managerDir, cmPending, helperCalls>>
    /\ UNCHANGED notCm

\* A catch-all that removes the manager directory when a step has thrown.
OnThrowRemoves == "rmManager"

\* Where control goes when a statement of the try block throws.
OnThrowSkipsFinally == "unwind"

OnThrow == "finally"

\* restoreCustomNodes(fromComfyDir, callbacks): fileSync creates the
\* temporary file, then saveSnapshot starts the first helper.
RestoreCustomNodes(fromComfyDir) ==
    /\ cmPc = "idle"
    /\ cmOp' = "restoreCustomNodes"
    /\ cmFrom' = fromComfyDir
    /\ cmPc' = "save"
    /\ tmpFile' = "exists"
    /\ run' = NewRun(<<"save-snapshot", "--output", TmpName, "--no-full-snapshot">>,
                     Env2("COMFYUI_PATH", fromComfyDir, "PYTHONPATH", fromComfyDir),
                     TRUE, fromComfyDir)
    /\ cmPending' = <<>>
    /\ cmResult' = NoOutcome
    /\ helperCalls' = <<>>
    /\ UNCHANGED managerDir
    /\ UNCHANGED notCm

\* fileSync throws: no temporary file exists and the try block is not entered.
TmpFileFails(fromComfyDir) ==
    /\ cmPc = "idle"
    /\ cmOp' = "restoreCustomNodes"
    /\ cmFrom' = fromComfyDir
    /\ tmpFile' = "none"
    /\ run' = NoRun
    /\ cmPending' = <<>>
    /\ cmResult' = [state |-> "threw", value |-> <<"fileSync failed">>]
    /\ helperCalls' = <<>>
    /\ UNCHANGED <<cmPc, managerDir>>
    /\ UNCHANGED notCm

\* saveSnapshot returned: restoreSnapshot starts the second helper.
SaveSnapshotReturns ==
    /\ cmPc = "save"
    /\ run.status = "returned"
    /\ cmPc' = "restore"
    /\ run' = NewRun(<<"restore-snapshot", TmpName, "--restore-to",
                       Join(BasePath, "custom_nodes")>>,
                     Env1("COMFYUI_PATH", Join(ResourcesPath, "Hanzo Studio")),
                     TRUE, NoCwd)
    /\ UNCHANGED <<cmOp, cmFrom, tmpFile, managerDir, cmPending, cmResult, helperCalls>>
    /\ UNCHANGED notCm

\* restoreSnapshot returned: the manager directory is looked up.
RestoreSnapshotReturns ==
    /\ cmPc = "restore"
    /\ run.status = "returned"
    /\ cmPc' = "checkManager"
    /\ UNCHANGED <<cmOp, cmFrom, run, tmpFile, managerDir, cmPending, cmResult, helperCalls>>
    /\ UNCHANGED notCm

\* saveSnapshot or restoreSnapshot threw.
SnapshotThrows ==
    /\ cmPc \in {"save", "restore"}
    /\ run.status = "threw"
    /\ cmPending' = run.message
    /\ cmPc' = OnThrow
    /\ UNCHANGED <<cmOp, cmFrom, run, tmpFile, managerDir, cmResult, helperCalls>>
    /\ UNCHANGED notCm

\* A lookup after which nothing is removed.
AfterLookupKeeps(accessible) == "finally"

\* if (await pathAccessible(managerPath)) { await fs.rm(...) }
AfterLookup(accessible) == IF accessible THEN "rmManager" ELSE "finally"

\* pathAccessible(managerPath): fs.access succeeds when the directory exists.
CheckManager ==
    /\ cmPc = "checkManager"
    /\ cmPc' = AfterLookup(managerDir)
    /\ UNCHANGED <<cmOp, cmFrom, run, tmpFile, managerDir, cmPending, cmResult, helperCalls>>
    /\ UNCHANGED notCm

\* await fs.rm(managerPath, { recursive: true, force: true })
RemoveManager ==
    /\ cmPc = "rmManager"
    /\ managerDir' = FALSE
    /\ cmPc' = "finally"
    /\ UNCHANGED <<cmOp, cmFrom, run, tmpFile, cmPending, cmResult, helperCalls>>
    /\ UNCHANGED notCm

\* fs.rm rejects (the directory is in use, or permission is denied).
RemoveManagerFails ==
    /\ cmPc = "rmManager"
    /\ cmPending' = <<"rm failed">>
    /\ cmPc' = OnThrow
    /\ UNCHANGED <<cmOp, cmFrom, run, tmpFile, managerDir, cmResult, helperCalls>>
    /\ UNCHANGED notCm

\* finally { tmpFile?.removeCallback() }
Finally ==
    /\ cmPc = "finally"
    /\ tmpFile' = "removed"
    /\ cmPc' = "unwind"
    /\ UNCHANGED <<cmOp, cmFrom, run, managerDir, cmPending, cmResult, helperCalls>>
    /\ UNCHANGED notCm

\* Control returns to the caller of restoreCustomNodes.
RestoreCustomNodesEnds ==
    /\ cmPc = "unwind"
    /\ cmResult' = IF cmPending = <<>>
                   THEN [state |-> "returned", value |-> <<>>]
                   ELSE [state |-> "threw", value |-> cmPending]
    /\ cmPc' = "idle"
    /\ UNCHANGED <<cmOp, cmFrom, run, tmpFile, managerDir, cmPending, helperCalls>>
    /\ UNCHANGED notCm

CmNext ==
    \/ \E env \in DirectEnvs, checkExit \in BOOLEAN : RunCommandAsync(env, checkExit)
    \/ \E accessible \in BOOLEAN : HelperStarts(accessible)
    \/ HelperFailsToStart
    \/ \E chunk \in StdoutChunks : HelperWritesStdout(chunk)
    \/ \E chunk \in StderrChunks : HelperWritesStderr(chunk)
    \/ HelperCreatesManagerDir
    \/ \E exitCode \in HelperExitCodes : HelperExits(exitCode)
    \/ RunCommandAsyncEnds
    \/ \E fromComfyDir \in FromDirs : RestoreCustomNodes(fromComfyDir)
    \/ \E fromComfyDir \in FromDirs : TmpFileFails(fromComfyDir)
    \/ SaveSnapshotReturns
    \/ RestoreSnapshotReturns
    \/ SnapshotThrows
    \/ CheckManager
    \/ RemoveManager
    \/ RemoveManagerFails
    \/ Finally
    \/ RestoreCustomNodesEnds

(***************************************************************************)
(* The install validation engine: ensureInstalled loads the installation,  *)
(* runs the validation checks, publishes the report and, when the report   *)
(* has errors, presents the maintenance page and waits for repair actions. *)
(* Paths are sequences of segments.                                        *)
(***************************************************************************)
MaxRepairs == 2

Items == {"basePath", "git", "vcRedist", "venv"}

\* app.getPath('exe')
ExePath == <<"valid", "app", "Hanzo Studio.exe">>

\* `${process.env.SYSTEMROOT}\\System32\\vcruntime140.dll`
VcRuntimePath == <<"C:", "Windows", "System32", "vcruntime140.dll">>

\* The base paths an installation is configured with.
BasePaths == { <<"valid", "base">>, <<"invalid", "base">>, <<"valid", "app", "config">> }

Platforms == {"win32", "darwin"}

\* The state of the isolated runtime: complete, complete with packages to
\* upgrade, or with the interpreter or a requirement manifest missing.
VenvStates == {"complete", "upgradable", "missing"}

\* path.dirname
Dirname(p) == SubSeq(p, 1, Len(p) - 1)

\* p lies inside the directory dir.
IsInside(p, dir) == Len(p) > Len(dir) /\ SubSeq(p, 1, Len(dir)) = dir

\* An access that succeeds whatever the path.
pathAccessibleAlways(fs, path) == TRUE

\* pathAccessible(path): fsPromises.access(path) succeeds.
pathAccessible(fs, path) == path \in fs

\* A base-path check that looks at the install root only when the path is missing.
BasePathStatusTrustsExisting(fs, path) ==
    IF ~pathAccessible(fs, path) THEN "error" ELSE "OK"

\* base path: error if the path is not fsAccess, error if it lies inside
\* the install root of the running executable.
BasePathStatus(fs, path) ==
    IF ~pathAccessible(fs, path) \/ IsInside(path, Dirname(ExePath)) THEN "error" ELSE "OK"

\* tool availability: error if the probe fails.
GitStatus(probe) == IF probe THEN "OK" ELSE "error"

\* platform runtime library: Windows only, skipped elsewhere.
VcRedistStatus(os, fs) ==
    IF os # "win32" THEN "skipped"
    ELSE IF pathAccessible(fs, VcRuntimePath) THEN "OK" ELSE "error"

\* runtime completeness.
VenvStatus(state) ==
    CASE state = "complete" -> "OK"
      [] state = "upgradable" -> "warning"
      [] state = "missing" -> "error"

\* The check of one item against the installation and the system.
CheckItem(item) ==
    CASE item = "basePath" -> BasePathStatus(fsAccess, basePath)
      [] item = "git" -> GitStatus(gitProbe)
      [] item = "vcRedist" -> VcRedistStatus(platform, fsAccess)
      [] item = "venv" -> VenvStatus(venvState)

\* A validity that warnings take away.
OverallValidStrict(items) == \A i \in Items : items[i] \in {"OK", "skipped"}

\* overallValid: no item is error.
OverallValid(items) == ~(\E i \in Items : items[i] = "error")

\* hasIssues: some item is warning or error.
HasIssues(items) == \E i \in Items : items[i] \in {"warning", "error"}

\* A report: the items, the derived flags, and the number of repair actions
\* accepted when it was published.
Report(items, accepted) ==
    [items |-> items, overallValid |-> OverallValid(items),
     hasIssues |-> HasIssues(items), repairs |-> accepted]

\* No check of the pass has completed.
Unchecked == [i \in Items |-> "unset"]

NoInstallation == [state |-> "none", isValid |-> FALSE, hasIssues |-> FALSE]

ValInit ==
    /\ valPc = "idle"
    /\ basePath \in BasePaths
    /\ fsAccess \in SUBSET {basePath, VcRuntimePath}
    /\ gitProbe \in BOOLEAN
    /\ platform \in Platforms
    /\ venvState \in VenvStates
    /\ pending = Unchecked
    /\ validationUpdates = <<>>
    /\ onMaintenancePage = FALSE
    /\ repairs = 0
    /\ repaired = {}
    /\ installation = NoInstallation

ValIdle ==
    /\ valPc = "idle"
    /\ basePath = <<"valid", "base">>
    /\ fsAccess = {basePath, VcRuntimePath}
    /\ gitProbe = TRUE
    /\ platform = "darwin"
    /\ venvState = "complete"
    /\ pending = Unchecked
    /\ validationUpdates = <<>>
    /\ onMaintenancePage = FALSE
    /\ repairs = 0
    /\ repaired = {}
    /\ installation = NoInstallation

\* ensureInstalled(): the installation is loaded from the configuration and
\* a validation pass starts.
EnsureInstalled ==
    /\ valPc = "idle"
    /\ valPc' = "validating"
    /\ pending' = Unchecked
    /\ UNCHANGED <<basePath, fsAccess, gitProbe, platform, venvState, validationUpdates,
                   onMaintenancePage, repairs, repaired, installation>>
    /\ UNCHANGED notVal

\* One check of the pass completes; the checks complete in any order.
Check(item) ==
    /\ valPc = "validating"
    /\ pending[item] = "unset"
    /\ pending' = [pending EXCEPT ![item] = CheckItem(item)]
    /\ UNCHANGED <<valPc, basePath, fsAccess, gitProbe, platform, venvState,
                   validationUpdates, onMaintenancePage, repairs, repaired, installation>>
    /\ UNCHANGED notVal

\* All checks have completed: the report is published to the window.
Publish ==
    /\ valPc = "validating"
    /\ \A i \in Items : pending[i] # "unset"
    /\ validationUpdates' = Append(validationUpdates, Report(pending, repairs))
    /\ valPc' = "published"
    /\ UNCHANGED <<basePath, fsAccess, gitProbe, platform, venvState, pending,
                   onMaintenancePage, repairs, repaired, installation>>
    /\ UNCHANGED notVal

LastReport == validationUpdates[Len(validationUpdates)]

\* An engine that shows the maintenance page after every report.
AfterReportAlwaysPresents(valid) == "present"

\* An engine that validates again by itself after a report with errors.
AfterReportRetries(valid) == IF valid THEN "return" ELSE "retry"

\* If overallValid, return success immediately; if not, present the
\* maintenance page.
AfterReport(valid) == IF valid THEN "return" ELSE "present"

\* What the engine does with the report it has published.
Decide ==
    /\ valPc = "published"
    /\ LET next == AfterReport(LastReport.overallValid) IN
         /\ valPc' = CASE next = "return" -> "done"
                       [] next = "present" -> "repairing"
                       [] next = "retry" -> "validating"
         /\ onMaintenancePage' = (onMaintenancePage \/ next = "present")
         /\ installation' = IF next = "return"
                            THEN [state |-> "installed",
                                  isValid |-> LastReport.overallValid,
                                  hasIssues |-> LastReport.hasIssues]
                            ELSE installation
         /\ pending' = IF next = "retry" THEN Unchecked ELSE pending
    /\ UNCHANGED <<basePath, fsAccess, gitProbe, platform, venvState, validationUpdates,
                   repairs, repaired>>
    /\ UNCHANGED notVal

\* The condition the repair of an item acts on, put right.
Repaired(item) ==
    CASE item = "basePath" ->
             [basePath |-> <<"valid", "base">>,
              fsAccess |-> fsAccess \cup {<<"valid", "base">>},
              gitProbe |-> gitProbe, venvState |-> venvState]
      [] item = "git" ->
             [basePath |-> basePath, fsAccess |-> fsAccess,
              gitProbe |-> TRUE, venvState |-> venvState]
      [] item = "vcRedist" ->
             [basePath |-> basePath, fsAccess |-> fsAccess \cup {VcRuntimePath},
              gitProbe |-> gitProbe, venvState |-> venvState]
      [] item = "venv" ->
             [basePath |-> basePath, fsAccess |-> fsAccess,
              gitProbe |-> gitProbe, venvState |-> "complete"]

\* The user completes the repair action of an item the report marks as
\* error; the action puts the condition right or leaves it as it is. The
\* engine reloads the installation and validates again.
RepairAction(item, fixes) ==
    /\ valPc = "repairing"
    /\ repairs < MaxRepairs
    /\ LastReport.items[item] = "error"
    /\ repairs' = repairs + 1
    /\ IF fixes
       THEN /\ basePath' = Repaired(item).basePath
            /\ fsAccess' = Repaired(item).fsAccess
            /\ gitProbe' = Repaired(item).gitProbe
            /\ venvState' = Repaired(item).venvState
            /\ repaired' = repaired \cup {item}
       ELSE UNCHANGED <<basePath, fsAccess, gitProbe, venvState, repaired>>
    /\ valPc' = "validating"
    /\ pending' = Unchecked
    /\ UNCHANGED <<platform, validationUpdates, onMaintenancePage, installation>>
    /\ UNCHANGED notVal

\* The user leaves the maintenance page: ensureInstalled returns the
\* installation with the last report.
Abandon ==
    /\ valPc = "repairing"
    /\ valPc' = "done"
    /\ installation' = [state |-> "installed", isValid |-> LastReport.overallValid,
                        hasIssues |-> LastReport.hasIssues]
    /\ UNCHANGED <<basePath, fsAccess, gitProbe, platform, venvState, pending,
                   validationUpdates, onMaintenancePage, repairs, repaired>>
    /\ UNCHANGED notVal

ValNext ==
    \/ EnsureInstalled
    \/ \E item \in Items : Check(item)
    \/ Publish
    \/ Decide
    \/ \E item \in Items, fixes \in BOOLEAN : RepairAction(item, fixes)
    \/ Abandon

(***************************************************************************)
(* DevOverrides: the development overrides read from the environment when  *)
(* the object is constructed. Two launches of the application are          *)
(* modelled, with the same packaging and command line and an environment   *)
(* each.                                                                   *)
(***************************************************************************)
MaxEnvSet == 2

Launches == {1, 2}

\* The fields of DevOverrides, each read from the variable of the same name.
OverrideFields ==
    {"COMFY_HOST", "COMFY_PORT", "DEV_SERVER_URL", "DEV_FRONTEND_URL",
     "USE_EXTERNAL_SERVER", "DEV_TOOLS_AUTO", "SENTRY_ENABLED"}

\* undefined: a variable that is not set, a field that is not assigned.
NoValue == "(undefined)"

\* The values a variable is set to.
EnvValues(name) ==
    IF name = "USE_EXTERNAL_SERVER" THEN {"true", "1"} ELSE {"set"}

\* process.env: at most MaxEnvSet of the variables are set.
Envs ==
    UNION { { [name \in OverrideFields |-> IF name \in set THEN value[name] ELSE NoValue] :
                value \in {v \in [set -> {"true", "1", "set"}] :
                              \A name \in set : v[name] \in EnvValues(name)} } :
            set \in {s \in SUBSET OverrideFields : Cardinality(s) <= MaxEnvSet} }

\* Overrides that are read whatever the packaging and the command line.
OverridesEnabledAlways(hasSwitch, packaged) == TRUE

\* app.commandLine.hasSwitch('dev-mode') || !app.isPackaged
OverridesEnabled(hasSwitch, packaged) == hasSwitch \/ ~packaged

NotConstructed == [constructed |-> FALSE, fields |-> [name \in OverrideFields |-> NoValue]]

\* new DevOverrides()
NewDevOverrides(env, hasSwitch, packaged) ==
    [constructed |-> TRUE,
     fields |-> IF OverridesEnabled(hasSwitch, packaged)
                THEN [name \in OverrideFields |-> env[name]]
                ELSE [name \in OverrideFields |-> NoValue]]

\* get useExternalServer()
useExternalServer(overrides) == overrides.fields["USE_EXTERNAL_SERVER"] = "true"

DevInit ==
    /\ isPackaged \in BOOLEAN
    /\ devModeSwitch \in BOOLEAN
    /\ processEnv \in [Launches -> Envs]
    /\ devOverrides = [l \in Launches |-> NotConstructed]
    /\ externalServer = [l \in Launches |-> FALSE]

DevIdle ==
    /\ isPackaged = TRUE
    /\ devModeSwitch = FALSE
    /\ processEnv = [l \in Launches |-> [name \in OverrideFields |-> NoValue]]
    /\ devOverrides = [l \in Launches |-> NotConstructed]
    /\ externalServer = [l \in Launches |-> FALSE]

\* A launch constructs its DevOverrides.
ConstructDevOverrides(l) ==
    /\ ~devOverrides[l].constructed
    /\ devOverrides' = [devOverrides EXCEPT
                           ![l] = NewDevOverrides(processEnv[l], devModeSwitch, isPackaged)]
    /\ UNCHANGED <<isPackaged, devModeSwitch, processEnv, externalServer>>
    /\ UNCHANGED notDev

\* A launch reads useExternalServer.
ReadUseExternalServer(l) ==
    /\ devOverrides[l].constructed
    /\ externalServer' = [externalServer EXCEPT ![l] = useExternalServer(devOverrides[l])]
    /\ UNCHANGED <<isPackaged, devModeSwitch, processEnv, devOverrides>>
    /\ UNCHANGED notDev

DevNext ==
    \/ \E l \in Launches : ConstructDevOverrides(l)
    \/ \E l \in Launches : ReadUseExternalServer(l)

(***************************************************************************)
(* TestEnvironment: a test breaks the install path, the virtual            *)
(* environment and the server start, and Symbol.asyncDispose restores them *)
(* at the end of the test.                                                 *)
(***************************************************************************)
MaxBreaks == 3

\* config.basePath as the test finds it, and the suffix breakInstallPath adds.
OriginalBasePath == <<"base">>

InvalidSuffix == "-invalid"

\* Comfy.Server.LaunchArgs as the test finds it.
OriginalLaunchArgs == {"cpu"}

\* config.basePath?.replace(/-invalid$/, '')
StripInvalid(p) ==
    IF Len(p) > 0 /\ p[Len(p)] = InvalidSuffix THEN SubSeq(p, 1, Len(p) - 1) ELSE p

\* The last call of a break or restore method: how it ended and what its
\* broken-state flag was when it was called.
NoTeCall == [op |-> "none", outcome |-> "none", flagBefore |-> FALSE]

TeCall(op, state, threw) ==
    [op |-> op, outcome |-> IF threw THEN "threw" ELSE "returned",
     flagBefore |-> haveBroken[state]]

TeInit ==
    /\ destroyEnvironmentOnDispose \in BOOLEAN
    /\ configFile = [exists |-> TRUE, basePath |-> OriginalBasePath]
    /\ venvDir = "original"
    /\ invalidVenvDir = "absent"
    /\ launchArgs = OriginalLaunchArgs
    /\ haveBroken = [installPath |-> FALSE, venv |-> FALSE, serverStart |-> FALSE]
    /\ disposed = FALSE
    /\ disposePc = "none"
    /\ installLocation = TRUE
    /\ broken = {}
    /\ breakCalls = 0
    /\ teCall = NoTeCall

TeIdle ==
    /\ destroyEnvironmentOnDispose = FALSE
    /\ configFile = [exists |-> TRUE, basePath |-> OriginalBasePath]
    /\ venvDir = "original"
    /\ invalidVenvDir = "absent"
    /\ launchArgs = OriginalLaunchArgs
    /\ haveBroken = [installPath |-> FALSE, venv |-> FALSE, serverStart |-> FALSE]
    /\ disposed = FALSE
    /\ disposePc = "none"
    /\ installLocation = TRUE
    /\ broken = {}
    /\ breakCalls = 0
    /\ teCall = NoTeCall

(***************************************************************************)
(* The break methods are called by the test. The restore methods are       *)
(* called by the test, and by Symbol.asyncDispose as its steps. fails      *)
(* stands for the file system rejecting the method's read, write or        *)
(* rename (an unreadable or locked file); it is drawn for the calls of the *)
(* test, Symbol.asyncDispose runs on a file system without such errors.    *)
(***************************************************************************)

\* breakInstallPath(): readConfig or writeFile throws before the flag is set.
BreakInstallPath(fails) ==
    /\ disposePc = "none"
    /\ breakCalls < MaxBreaks
    /\ breakCalls' = breakCalls + 1
    /\ teCall' = TeCall("breakInstallPath", "installPath", ~configFile.exists \/ fails)
    /\ IF configFile.exists /\ ~fails
       THEN /\ configFile' = [configFile EXCEPT !.basePath = Append(@, InvalidSuffix)]
            /\ haveBroken' = [haveBroken EXCEPT !.installPath = TRUE]
            /\ broken' = broken \cup {"installPath"}
       ELSE UNCHANGED <<configFile, haveBroken, broken>>
    /\ UNCHANGED <<destroyEnvironmentOnDispose, venvDir, invalidVenvDir, launchArgs, disposed,
                   disposePc, installLocation>>
    /\ UNCHANGED notTe

\* breakVenv(): rename throws when .venv is missing or .venv-invalid is in
\* the way, and the flag is then left as it was.
BreakVenv(fails) ==
    /\ disposePc = "none"
    /\ breakCalls < MaxBreaks
    /\ breakCalls' = breakCalls + 1
    /\ teCall' = TeCall("breakVenv", "venv",
                        venvDir = "absent" \/ invalidVenvDir # "absent" \/ fails)
    /\ IF venvDir # "absent" /\ invalidVenvDir = "absent" /\ ~fails
       THEN /\ invalidVenvDir' = venvDir
            /\ venvDir' = "absent"
            /\ haveBroken' = [haveBroken EXCEPT !.venv = TRUE]
            /\ broken' = broken \cup {"venv"}
       ELSE UNCHANGED <<venvDir, invalidVenvDir, haveBroken, broken>>
    /\ UNCHANGED <<destroyEnvironmentOnDispose, configFile, launchArgs, disposed, disposePc,
                   installLocation>>
    /\ UNCHANGED notTe

\* breakServerStart(): the flag is set first; the catch block clears it.
BreakServerStart(fails) ==
    /\ disposePc = "none"
    /\ breakCalls < MaxBreaks
    /\ breakCalls' = breakCalls + 1
    /\ teCall' = TeCall("breakServerStart", "serverStart", fails)
    /\ IF ~fails
       THEN /\ launchArgs' = (launchArgs \ {"cpu"}) \cup {"invalid-arg"}
            /\ haveBroken' = [haveBroken EXCEPT !.serverStart = TRUE]
            /\ broken' = broken \cup {"serverStart"}
       ELSE /\ haveBroken' = [haveBroken EXCEPT !.serverStart = FALSE]
            /\ UNCHANGED <<launchArgs, broken>>
    /\ UNCHANGED <<destroyEnvironmentOnDispose, configFile, venvDir, invalidVenvDir, disposed,
                   disposePc, installLocation>>
    /\ UNCHANGED notTe

\* The application under test installs a new virtual environment in place
\* of the one that was moved away.
VenvRecreated ==
    /\ disposePc = "none"
    /\ venvDir = "absent"
    /\ venvDir' = "recreated"
    /\ UNCHANGED <<destroyEnvironmentOnDispose, configFile, invalidVenvDir, launchArgs,
                   haveBroken, disposed, disposePc, installLocation, broken, breakCalls,
                   teCall>>
    /\ UNCHANGED notTe

\* [Symbol.asyncDispose](): if (this.#disposed) return; this.#disposed = true
AsyncDispose ==
    /\ disposePc = "none"
    /\ ~disposed
    /\ disposed' = TRUE
    /\ disposePc' = IF destroyEnvironmentOnDispose THEN "deleteEverything"
                    ELSE "restoreInstallPath"
    /\ UNCHANGED <<destroyEnvironmentOnDispose, configFile, venvDir, invalidVenvDir, launchArgs,
                   haveBroken, installLocation, broken, breakCalls, teCall>>
    /\ UNCHANGED notTe

\* deleteEverything(): the app data directory, config.json with it, and the
\* temporary install location are removed.
DeleteEverything ==
    /\ disposePc = "deleteEverything"
    /\ configFile' = [configFile EXCEPT !.exists = FALSE]
    /\ installLocation' = FALSE
    /\ disposePc' = "restoreInstallPath"
    /\ UNCHANGED <<destroyEnvironmentOnDispose, venvDir, invalidVenvDir, launchArgs,
                   haveBroken, disposed, broken, breakCalls, teCall>>
    /\ UNCHANGED notTe

\* A restore method is called by the test, or as the step of asyncDispose.
Called(step, fails) ==
    \/ disposePc = "none"
    \/ disposePc = step /\ ~fails

\* Where control is after the method: back in the test, or in asyncDispose
\* at its next step, or out of asyncDispose with the exception.
After(next, threw) ==
    IF disposePc = "none" THEN "none" ELSE IF threw THEN "threw" ELSE next

\* restoreInstallPath(): the flag is cleared, then readConfig throws when
\* config.json is gone or unreadable.
RestoreInstallPath(fails) ==
    /\ Called("restoreInstallPath", fails)
    /\ IF ~haveBroken.installPath
       THEN /\ teCall' = TeCall("restoreInstallPath", "installPath", FALSE)
            /\ disposePc' = After("restoreVenv", FALSE)
            /\ UNCHANGED <<haveBroken, configFile>>
       ELSE /\ haveBroken' = [haveBroken EXCEPT !.installPath = FALSE]
            /\ teCall' = TeCall("restoreInstallPath", "installPath",
                                ~configFile.exists \/ fails)
            /\ disposePc' = After("restoreVenv", ~configFile.exists \/ fails)
            /\ IF configFile.exists /\ ~fails
               THEN configFile' = [configFile EXCEPT !.basePath = StripInvalid(@)]
               ELSE UNCHANGED configFile
    /\ UNCHANGED <<destroyEnvironmentOnDispose, venvDir, invalidVenvDir, launchArgs, disposed,
                   installLocation, broken, breakCalls>>
    /\ UNCHANGED notTe

\* restoreVenv(): the flag is cleared, then the method throws when
\* .venv-invalid does not exist or rm / rename fails.
RestoreVenv(fails) ==
    /\ Called("restoreVenv", fails)
    /\ IF ~haveBroken.venv
       THEN /\ teCall' = TeCall("restoreVenv", "venv", FALSE)
            /\ disposePc' = After("restoreServerStart", FALSE)
            /\ UNCHANGED <<haveBroken, venvDir, invalidVenvDir>>
       ELSE /\ haveBroken' = [haveBroken EXCEPT !.venv = FALSE]
            /\ teCall' = TeCall("restoreVenv", "venv", invalidVenvDir = "absent" \/ fails)
            /\ disposePc' = After("restoreServerStart", invalidVenvDir = "absent" \/ fails)
            /\ IF invalidVenvDir = "absent" \/ fails
               THEN UNCHANGED <<venvDir, invalidVenvDir>>
               ELSE /\ venvDir' = invalidVenvDir
                    /\ invalidVenvDir' = "absent"
    /\ UNCHANGED <<destroyEnvironmentOnDispose, configFile, launchArgs, disposed,
                   installLocation, broken, breakCalls>>
    /\ UNCHANGED notTe

\* restoreServerStart(): the flag is cleared first; the catch block sets it
\* again.
RestoreServerStart(fails) ==
    /\ Called("restoreServerStart", fails)
    /\ IF ~haveBroken.serverStart
       THEN /\ teCall' = TeCall("restoreServerStart", "serverStart", FALSE)
            /\ disposePc' = After("installLocation", FALSE)
            /\ UNCHANGED <<haveBroken, launchArgs>>
       ELSE /\ teCall' = TeCall("restoreServerStart", "serverStart", fails)
            /\ disposePc' = After("installLocation", fails)
            /\ IF fails
               THEN /\ haveBroken' = [haveBroken EXCEPT !.serverStart = TRUE]
                    /\ UNCHANGED launchArgs
               ELSE /\ haveBroken' = [haveBroken EXCEPT !.serverStart = FALSE]
                    /\ launchArgs' = (launchArgs \cup {"cpu"}) \ {"invalid-arg"}
    /\ UNCHANGED <<destroyEnvironmentOnDispose, configFile, venvDir, invalidVenvDir, disposed,
                   installLocation, broken, breakCalls>>
    /\ UNCHANGED notTe

\* await this.installLocation[Symbol.asyncDispose]()
DisposeInstallLocation ==
    /\ disposePc = "installLocation"
    /\ installLocation' = FALSE
    /\ disposePc' = "done"
    /\ UNCHANGED <<destroyEnvironmentOnDispose, configFile, venvDir, invalidVenvDir, launchArgs,
                   haveBroken, disposed, broken, breakCalls, teCall>>
    /\ UNCHANGED notTe

TeNext ==
    \/ \E fails \in BOOLEAN : BreakInstallPath(fails)
    \/ \E fails \in BOOLEAN : BreakVenv(fails)
    \/ \E fails \in BOOLEAN : BreakServerStart(fails)
    \/ VenvRecreated
    \/ AsyncDispose
    \/ DeleteEverything
    \/ \E fails \in BOOLEAN : RestoreInstallPath(fails)
    \/ \E fails \in BOOLEAN : RestoreVenv(fails)
    \/ \E fails \in BOOLEAN : RestoreServerStart(fails)
    \/ DisposeInstallLocation

(***************************************************************************)
(* rotateLogFiles: the current log file of a base name is renamed to a     *)
(* timestamped file, after the oldest timestamped file has been removed    *)
(* when there are more than maxFiles of them. Timestamps are instants of   *)
(* a clock; their file names have a fixed width, so that names.sort()      *)
(* orders them by instant.                                                 *)
(***************************************************************************)
MaxClock == 4

MaxFilesArg == 2

\* The log files of the application (LogFile).
BaseNames == {"main.log", "comfyui.log"}

\* names.sort(); names[0]
Oldest(names) == CHOOSE t \in names : \A u \in names : t <= u

\* if (maxFiles > 0) ... if (names.length > maxFiles)
ShouldRemove(count, max) == max > 0 /\ count > max

\* The timestamped files of a base name after rotateLogFiles at instant now.
Rotated(names, max, now) ==
    (IF ShouldRemove(Cardinality(names), max) THEN names \ {Oldest(names)} ELSE names)
        \cup {now}

LogInit ==
    /\ maxFiles \in 0..MaxFilesArg
    /\ logClock = 0
    /\ currentLog = [b \in BaseNames |-> TRUE]
    /\ rotatedLogs = [b \in BaseNames |-> {}]

LogIdle ==
    /\ maxFiles = 0
    /\ logClock = 0
    /\ currentLog = [b \in BaseNames |-> TRUE]
    /\ rotatedLogs = [b \in BaseNames |-> {}]

\* rotateLogFiles(logDir, baseName, maxFiles): returns at once when the
\* current log file cannot be accessed.
RotateLogFiles(baseName) ==
    /\ IF currentLog[baseName]
       THEN /\ rotatedLogs' = [rotatedLogs EXCEPT
                                  ![baseName] = Rotated(@, maxFiles, logClock)]
            /\ currentLog' = [currentLog EXCEPT ![baseName] = FALSE]
       ELSE UNCHANGED <<rotatedLogs, currentLog>>
    /\ UNCHANGED <<maxFiles, logClock>>
    /\ UNCHANGED notLog

\* The application writes to its log: the current log file exists again.
WriteLog(baseName) ==
    /\ ~currentLog[baseName]
    /\ currentLog' = [currentLog EXCEPT ![baseName] = TRUE]
    /\ UNCHANGED <<maxFiles, logClock, rotatedLogs>>
    /\ UNCHANGED notLog

\* Time passes: new Date() yields a later instant.
Tick ==
    /\ logClock < MaxClock
    /\ logClock' = logClock + 1
    /\ UNCHANGED <<maxFiles, currentLog, rotatedLogs>>
    /\ UNCHANGED notLog

LogNext ==
    \/ \E baseName \in BaseNames : RotateLogFiles(baseName)
    \/ \E baseName \in BaseNames : WriteLog(baseName)
    \/ Tick

(***************************************************************************)
(* findAvailablePort(host, startPort, endPort): tryPort(port) rejects when *)
(* port is past endPort, else creates a server and listens on the port;    *)
(* the 'error' listener calls tryPort(port + 1), the listening callback    *)
(* closes the server and the 'close' listener resolves with the port.      *)
(* Whether listening on a port succeeds is the choice of the operating     *)
(* system.                                                                 *)
(***************************************************************************)
MaxPort == 4

\* The ports of the model.
Ports == 1..MaxPort

NoAttempts == <<>>

NoPortPromise == [state |-> "none", value |-> 0]

PortInit ==
    /\ portStart \in Ports
    /\ portEnd \in Ports \cup {0}
    /\ portPc = "idle"
    /\ portNow = 0
    /\ portAttempts = NoAttempts
    /\ portPromise = NoPortPromise

PortIdle ==
    /\ portStart = 1
    /\ portEnd = 0
    /\ portPc = "idle"
    /\ portNow = 0
    /\ portAttempts = NoAttempts
    /\ portPromise = NoPortPromise

\* A range test that leaves out the last port.
PastEndEarly(port, endPort) == port >= endPort

\* if (port > endPort)
PastEnd(port, endPort) == port > endPort

\* findAvailablePort(host, startPort, endPort): new Promise, tryPort(startPort)
FindAvailablePort ==
    /\ portPc = "idle"
    /\ portPromise' = [state |-> "pending", value |-> 0]
    /\ portNow' = portStart
    /\ portPc' = "tryPort"
    /\ UNCHANGED <<portStart, portEnd, portAttempts>>
    /\ UNCHANGED notPort

\* tryPort(port): reject past the end of the range, else createServer and
\* listen(port, host, ...).
TryPort ==
    /\ portPc = "tryPort"
    /\ IF PastEnd(portNow, portEnd)
       THEN /\ portPromise' = [state |-> "rejected", value |-> 0]
            /\ portPc' = "settled"
       ELSE /\ portPc' = "listen"
            /\ UNCHANGED portPromise
    /\ UNCHANGED <<portStart, portEnd, portNow, portAttempts>>
    /\ UNCHANGED notPort

\* The listening callback: server.once('close', ...) and server.close().
ListenSucceeds ==
    /\ portPc = "listen"
    /\ portAttempts' = Append(portAttempts, [port |-> portNow, ok |-> TRUE])
    /\ portPc' = "closing"
    /\ UNCHANGED <<portStart, portEnd, portNow, portPromise>>
    /\ UNCHANGED notPort

\* The 'error' listener: tryPort(port + 1).
ListenFails ==
    /\ portPc = "listen"
    /\ portAttempts' = Append(portAttempts, [port |-> portNow, ok |-> FALSE])
    /\ portNow' = portNow + 1
    /\ portPc' = "tryPort"
    /\ UNCHANGED <<portStart, portEnd, portPromise>>
    /\ UNCHANGED notPort

\* The 'close' listener: resolve(port).
ServerClosed ==
    /\ portPc = "closing"
    /\ portPromise' = [state |-> "resolved", value |-> portNow]
    /\ portPc' = "settled"
    /\ UNCHANGED <<portStart, portEnd, portNow, portAttempts>>
    /\ UNCHANGED notPort

PortNext ==
    \/ FindAvailablePort
    \/ TryPort
    \/ ListenSucceeds
    \/ ListenFails
    \/ ServerClosed

(***************************************************************************)
(* The specifications, one per component.                                  *)
(***************************************************************************)
\* Version comparison: the arguments are chosen, nothing else runs.
InitVersions == VerInit /\ AppInit /\ ProbeInit /\ CmIdle /\ ValIdle /\ DevIdle /\ TeIdle /\ LogIdle /\ PortIdle

\* The app state: the process has started, no comparison is in progress.
InitAppState == AppInit /\ VerIdle /\ ProbeInit /\ CmIdle /\ ValIdle /\ DevIdle /\ TeIdle /\ LogIdle /\ PortIdle

\* The shell probe: no probe has started.
InitProbe == ProbeInit /\ VerIdle /\ AppInit /\ CmIdle /\ ValIdle /\ DevIdle /\ TeIdle /\ LogIdle /\ PortIdle

\* CmCli: calls of runCommandAsync and restoreCustomNodes, one at a time.
InitCmCli == CmInit /\ VerIdle /\ AppInit /\ ProbeInit /\ ValIdle /\ DevIdle /\ TeIdle /\ LogIdle /\ PortIdle

\* The validation engine: one ensureInstalled.
InitValidation == ValInit /\ VerIdle /\ AppInit /\ ProbeInit /\ CmIdle /\ DevIdle /\ TeIdle /\ LogIdle /\ PortIdle

SpecVersions == InitVersions /\ [][VerNext]_vars

SpecLifecycle == InitAppState /\ [][LifecycleNext]_vars

SpecStage == InitAppState /\ [][StageNext]_vars

SpecProgress == InitAppState /\ [][ProgressNext]_vars

SpecProbe == InitProbe /\ [][ProbeNext]_vars

SpecCmCli == InitCmCli /\ [][CmNext]_vars

\* DevOverrides: two launches.
InitDevOverrides == DevInit /\ VerIdle /\ AppInit /\ ProbeInit /\ CmIdle /\ ValIdle /\ TeIdle /\ LogIdle /\ PortIdle

\* TestEnvironment: one test and its disposal.
InitTestEnvironment ==
    TeInit /\ VerIdle /\ AppInit /\ ProbeInit /\ CmIdle /\ ValIdle /\ DevIdle /\ LogIdle /\ PortIdle

\* Log rotation: rotations, log writes and the passing of time.
InitLogs ==
    LogInit /\ VerIdle /\ AppInit /\ ProbeInit /\ CmIdle /\ ValIdle /\ DevIdle /\ TeIdle /\ PortIdle

SpecValidation == InitValidation /\ [][ValNext]_vars

SpecTestEnvironment == InitTestEnvironment /\ [][TeNext]_vars

SpecLogs == InitLogs /\ [][LogNext]_vars

SpecDevOverrides == InitDevOverrides /\ [][DevNext]_vars

\* findAvailablePort: one call, for every range of the model's ports.
InitPorts ==
    PortInit /\ VerIdle /\ AppInit /\ ProbeInit /\ CmIdle /\ ValIdle /\ DevIdle /\ TeIdle
    /\ LogIdle

SpecPorts == InitPorts /\ [][PortNext]_vars

\* The event loop delivers the callback of every listen and close that was
\* started.
SpecPortsLive == SpecPorts /\ WF_vars(PortNext)

(***************************************************************************)
(* The reference comparison of version strings: components between         *)
(* separators, read as decimal numbers, padded with zeros, compared from   *)
(* the left.                                                               *)
(***************************************************************************)
RefBoundaries(s) ==
    {0, Len(s) + 1} \cup {i \in 1..Len(s) : s[i] = "." \/ s[i] = "-" \/ s[i] = "+"}

RefComponents(s) ==
    LET bs == RefBoundaries(s)
        \* The k-th boundary from the left.
        nth == [k \in 1..Cardinality(bs) |->
                   CHOOSE p \in bs : Cardinality({q \in bs : q < p}) = k - 1]
    IN  [k \in 1..(Cardinality(bs) - 1) |->
            [i \in 1..(nth[k + 1] - nth[k] - 1) |-> s[nth[k] + i]]]

RECURSIVE RefPow10(_)
RefPow10(n) == IF n = 0 THEN 1 ELSE 10 * RefPow10(n - 1)

RECURSIVE RefSum(_, _)
RefSum(ds, i) ==
    IF i > Len(ds) THEN 0
    ELSE (CHOOSE d \in 0..9 : DigitChars[d + 1] = ds[i]) * RefPow10(Len(ds) - i)
         + RefSum(ds, i + 1)

\* A well-formed version string: every component is a nonempty digit string.
WellFormed(v) ==
    /\ v # Undefined
    /\ LET cs == RefComponents(v)
       IN  \A k \in 1..Len(cs) :
               /\ cs[k] # <<>>
               /\ \A i \in 1..Len(cs[k]) : \E d \in 0..9 : DigitChars[d + 1] = cs[k][i]

RefNumbers(v) ==
    LET cs == RefComponents(v) IN [k \in 1..Len(cs) |-> RefSum(cs[k], 1)]

RefPadded(ns, n) == ns \o [i \in 1..(n - Len(ns)) |-> 0]

RefCompare(a, b) ==
    LET na == RefNumbers(a)
        nb == RefNumbers(b)
        n  == IF Len(na) >= Len(nb) THEN Len(na) ELSE Len(nb)
        pa == RefPadded(na, n)
        pb == RefPadded(nb, n)
        diff == {i \in 1..n : pa[i] # pb[i]}
    IN  IF diff = {} THEN 0
        ELSE LET k == CHOOSE i \in diff : \A j \in diff : i <= j
             IN  IF pa[k] < pb[k] THEN -1 ELSE 1

RefBelow(a, b) ==
    LET na == RefNumbers(a)
        nb == RefNumbers(b)
        n  == IF Len(na) >= Len(nb) THEN Len(na) ELSE Len(nb)
        pa == RefPadded(na, n)
        pb == RefPadded(nb, n)
    IN  \E k \in 1..n :
            /\ pa[k] < pb[k]
            /\ \A j \in 1..(k - 1) : pa[j] = pb[j]

V580 == <<"5", "8", "0">>

V580_0_0 == <<"5", "8", "0", ".", "0", ".", "0">>

V579_0_0 == <<"5", "7", "9", ".", "0", ".", "0">>

V580_0_1 == <<"5", "8", "0", ".", "0", ".", "1">>

V581_0 == <<"5", "8", "1", ".", "0">>

ZeroVersion == <<"0", ".", "0", ".", "0">>

(* C8: for well-formed version strings a and b, compareVersions(a, b)      *)
(* returns what the reference comparison returns (split on . - +, numeric  *)
(* components, zero padding, first differing pair decides, 0 when none     *)
(* differs); in particular compareVersions('580', '580.0.0') = 0.          *)
C8_CompareMatchesReference ==
    verPc # "input" =>
        /\ (WellFormed(versionA) /\ WellFormed(versionB)) =>
               cmpResult = [threw |-> FALSE, value |-> RefCompare(versionA, versionB)]
        /\ (versionA = V580 /\ versionB = V580_0_0) => cmpResult.value = 0

\* Reached: '1' against '1.1' has been compared, the shorter padded, result -1.
C8_Witness ==
    /\ verPc = "compared"
    /\ versionA = <<"1">>
    /\ versionB = <<"1", ".", "1">>
    /\ cmpResult.value = -1

(* C9: for well-formed version strings, isNvidiaDriverBelowMinimum(version,*)
(* minimum) is true exactly when the first differing pair of zero-padded   *)
(* components has the version's component smaller, and false when all are  *)
(* equal: 579.0.0 is below 580; 580.0.0, 580.0.1 and 581.0 are not.        *)
C9_BelowMinimumMatchesReference ==
    verPc = "checked" =>
        /\ ~belowResult.threw
        /\ (WellFormed(versionA) /\ WellFormed(versionB)) =>
               (belowResult.value <=> RefBelow(versionA, versionB))
        /\ (versionA = V579_0_0 /\ versionB = V580) => belowResult.value
        /\ (versionA \in {V580_0_0, V580_0_1, V581_0} /\ versionB = V580) =>
               ~belowResult.value

\* Reached: 579.0.0 has been checked against the minimum 580 and is below it.
C9_Witness ==
    /\ verPc = "checked"
    /\ versionA = V579_0_0
    /\ versionB = V580
    /\ belowResult.value

\* A version string no component of which is a number (the empty string
\* counts: its one component is empty).
NoNumber(v) ==
    /\ v # Undefined
    /\ \/ v = <<>>
       \/ LET cs == RefComponents(v)
          IN  \A k \in 1..Len(cs) :
                  \E i \in 1..Len(cs[k]) : \A d \in 0..9 : DigitChars[d + 1] # cs[k][i]

\* A malformed or empty version string.
Malformed(v) == v = Undefined \/ ~WellFormed(v)

(* C10 as stated: compareVersions never throws and treats every malformed  *)
(* or empty version string exactly as '0.0.0', on either side.             *)
C10_MalformedAsZero ==
    verPc # "input" =>
        /\ ~cmpResult.threw
        /\ Malformed(versionA) => cmpResult = compareVersions(ZeroVersion, versionB)
        /\ Malformed(versionB) => cmpResult = compareVersions(versionA, ZeroVersion)

(* C10 amended: compareVersions never throws; a missing or empty version   *)
(* string, and one with no numeric component, is treated exactly as        *)
(* '0.0.0' on either side; a non-numeric component between numeric ones is *)
(* dropped instead, so '1.x.3' is compared as '1.3'.                       *)
C10_MissingOrNonNumericAsZero ==
    verPc # "input" =>
        /\ ~cmpResult.threw
        /\ (versionA = Undefined \/ NoNumber(versionA)) =>
               cmpResult = compareVersions(ZeroVersion, versionB)
        /\ (versionB = Undefined \/ NoNumber(versionB)) =>
               cmpResult = compareVersions(versionA, ZeroVersion)
        /\ versionA = OneXThree =>
               cmpResult = compareVersions(<<"1", ".", "3">>, versionB)
        /\ versionB = OneXThree =>
               cmpResult = compareVersions(versionA, <<"1", ".", "3">>)

\* Reached: a missing version has been compared with '1' and came out smaller,
\* as '0.0.0' does.
C10_Witness ==
    /\ verPc = "compared"
    /\ versionA = Undefined
    /\ versionB = <<"1">>
    /\ cmpResult = [threw |-> FALSE, value |-> -1]

(***************************************************************************)
(* The app state and the install stage tracker.                            *)
(***************************************************************************)

(* C4: the first initializeAppState call succeeds; every later call throws *)
(* AppStartError and leaves installStage, loaded, ipcRegistered,           *)
(* isQuitting and the registered listeners as they were before the call.   *)
C4_SecondInitializeThrows ==
    [][ (lastCall'.op = "initializeAppState" /\ lastCall' # lastCall) =>
          IF initialized
          THEN /\ lastCall'.outcome = "threw"
               /\ UNCHANGED <<initialized, installStage, loaded, ipcRegistered,
                              isQuitting, listeners, quitListeners>>
          ELSE /\ lastCall'.outcome = "returned"
               /\ initialized' ]_vars

\* Reached: a second initializeAppState call has thrown in a state where the
\* stage had advanced, a signal had fired and a subscriber was registered.
C4_Witness ==
    /\ lastCall = Call("initializeAppState", "threw")
    /\ initialized
    /\ installStage.stage = "ready"
    /\ loaded
    /\ Registrations > 0

(* C5: each one-shot signal (ipcRegistered, loaded) is emitted at most     *)
(* once and reaches every subscriber at most once, whatever calls follow   *)
(* initialization, also calls made from inside a subscriber of the same    *)
(* signal; a call after the first returns without throwing and without     *)
(* emitting.                                                               *)
C5_OneShotSignals ==
    \A event \in OneShotEvents :
        /\ emits[event] <= 1
        /\ \A sub \in Subs : received[sub][event] <= 1
        /\ (lastCall.op = EmitOp(event) /\ ~lastCall.emitted) =>
               (lastCall.outcome = "returned" /\ Flag(event) /\ emits[event] = 1)

\* Reached: emitLoaded was called again from inside a subscriber of loaded,
\* the call returned, and the subscriber has received the event once.
C5_Witness ==
    /\ callStack = <<>>
    /\ lastCall.op = "emitLoaded"
    /\ lastCall.outcome = "returned"
    /\ lastCall.reentered = <<"loaded">>
    /\ received[1]["loaded"] = 1
    /\ emits["loaded"] = 1

\* The deliveries setInstallStage owes: each subscriber registered at the
\* call, once, with the argument, in registration order.
Owed(call) == [i \in 1..Len(call.snapshot) |-> <<call.snapshot[i], call.arg>>]

SetStageReturned ==
    /\ callStack = <<>>
    /\ lastCall.op = "setInstallStage"
    /\ lastCall.outcome = "returned"

C7_StageNeverMovesBack ==
    [][ \/ StageIndex(installStage'.stage) >= StageIndex(installStage.stage)
        \/ installStage'.stage = "error" ]_vars

(* C7 amended: setInstallStage checks no order: every call, whatever the   *)
(* current stage, makes the stage it is given the current one, also when   *)
(* that stage comes earlier in the InstallStage order (error is reachable  *)
(* from any stage, and any stage from error).                              *)
C7_EveryStageAccepted ==
    [][ ( /\ Len(callStack') > Len(callStack)
          /\ callStack'[Len(callStack')].event = "installStageChanged" ) =>
            installStage' = callStack'[Len(callStack')].arg ]_vars

\* Reached: the stage has moved back from ready to git_check.
C7_Witness ==
    /\ SetStageReturned
    /\ lastCall.prev.stage = "ready"
    /\ installStage.stage = "git_check"

(***************************************************************************)
(* The shell probe.                                                        *)
(***************************************************************************)

(* C1: when the timeout elapses before the probed process has exited, the  *)
(* process is killed and the probe resolves to false; whatever happens     *)
(* (exit 0, non-zero exit, killed, timed out) the promise resolves to a    *)
(* boolean and is never rejected.                                          *)
C1_ProbeResolvesNeverRejects ==
    \A i \in Probes :
        /\ promise[i].state # "rejected"
        /\ (proc[i].signalled /\ promise[i].state # "pending") =>
               (promise[i].state = "resolved" /\ promise[i].value = FALSE)

(***************************************************************************)
(* C2: on every exit path of restoreCustomNodes that follows the creation  *)
(* of the temporary snapshot file (successful import, non-zero helper exit *)
(* during export or during import, any other exception) the file has been  *)
(* removed when control is back at the caller.                             *)
(***************************************************************************)
C2_TmpFileRemovedOnReturn ==
    (cmOp = "restoreCustomNodes" /\ cmResult.state # "none") => tmpFile # "exists"

\* The import helper ended with a non-zero exit code, restoreCustomNodes
\* threw and the temporary file is gone.
C2_Witness ==
    /\ cmOp = "restoreCustomNodes"
    /\ cmResult.state = "threw"
    /\ Len(helperCalls) = 2
    /\ helperCalls[2].exitCode = <<1>>
    /\ tmpFile = "removed"

\* token is one of the pieces the text is made of.
Contains(text, token) == \E i \in 1..Len(text) : text[i] = token

(***************************************************************************)
(* C3: with checkExit = true, when the helper ends with a non-zero exit    *)
(* code runCommandAsync throws an error whose message contains the exit    *)
(* code, every stdout chunk and every stderr chunk the helper wrote; it    *)
(* returns normally only when the exit code is 0.                          *)
(***************************************************************************)
C3_NonZeroExitThrows ==
    run.checkExit =>
        /\ (run.exited /\ run.exitCode # 0) =>
               /\ run.status = "threw"
               /\ Contains(run.message, CodeText(run.exitCode))
               /\ \A i \in 1..Len(run.written) : Contains(run.message, run.written[i][2])
               /\ (cmOp = "runCommandAsync" /\ cmResult.state # "none") =>
                      cmResult = [state |-> "threw", value |-> run.message]
        /\ run.status = "returned" => (run.exited /\ run.exitCode = 0)

\* The helper wrote to both streams and ended with exit code 2; the call threw.
C3_Witness ==
    /\ run.checkExit
    /\ run.exited
    /\ run.exitCode = 2
    /\ run.status = "threw"
    /\ \E i, j \in 1..Len(run.written) :
           run.written[i][1] = "stdout" /\ run.written[j][1] = "stderr"

\* The arguments of a helper invocation after the script or module prefix.
Command(call) ==
    IF call.args[1] = "-m"
    THEN SubSeq(call.args, 3, Len(call.args))
    ELSE SubSeq(call.args, 2, Len(call.args))

(***************************************************************************)
(* C11: in restoreCustomNodes the first helper invocation is save-snapshot *)
(* and the only other one is restore-snapshot; restore-snapshot is invoked *)
(* only after save-snapshot has ended with exit code 0, and both name the  *)
(* same temporary file. When the export fails there is no import.          *)
(***************************************************************************)
C11_ImportOnlyAfterExport ==
    cmOp = "restoreCustomNodes" =>
        /\ Len(helperCalls) <= 2
        /\ Len(helperCalls) >= 1 =>
               /\ Command(helperCalls[1])[1] = "save-snapshot"
               /\ Command(helperCalls[1])[2] = "--output"
        /\ Len(helperCalls) = 2 =>
               /\ helperCalls[1].exitCode = <<0>>
               /\ Command(helperCalls[2])[1] = "restore-snapshot"
               /\ Command(helperCalls[2])[2] = Command(helperCalls[1])[3]
        /\ (cmPc \in {"restore", "checkManager", "rmManager"}) =>
               (Len(helperCalls) >= 1 /\ helperCalls[1].exitCode = <<0>>)

\* The import helper has been invoked and has ended, after an export.
C11_Witness ==
    /\ cmOp = "restoreCustomNodes"
    /\ Len(helperCalls) = 2
    /\ helperCalls[2].exitCode # <<>>

C13_ExportPointsAtSource ==
    (cmOp = "restoreCustomNodes" /\ Len(helperCalls) >= 1) =>
        /\ helperCalls[1].cwd = cmFrom
        /\ helperCalls[1].env["COMFYUI_PATH"] = cmFrom

\* The export helper was invoked for a source that is not the base path.
C13_Witness ==
    /\ cmOp = "restoreCustomNodes"
    /\ Len(helperCalls) >= 1
    /\ cmFrom # BasePath
    /\ helperCalls[1].cwd = cmFrom

\* The items a report marks as error.
ErrorItems(report) == {i \in Items : report.items[i] = "error"}

(***************************************************************************)
(* C14: in every published validation report overallValid is true exactly  *)
(* when no item has status error; warning and skipped items do not make it *)
(* false.                                                                  *)
(***************************************************************************)
C14_OverallValidIffNoError ==
    \A n \in 1..Len(validationUpdates) :
        validationUpdates[n].overallValid <=> (ErrorItems(validationUpdates[n]) = {})

\* A published report with a warning, a skipped item and no error.
C14_Witness ==
    \E n \in 1..Len(validationUpdates) :
        /\ validationUpdates[n].overallValid
        /\ validationUpdates[n].items["venv"] = "warning"
        /\ validationUpdates[n].items["vcRedist"] = "skipped"

\* The base path lies under the directory of the running executable.
UnderInstallRoot(p) == Len(p) >= 3 /\ p[1] = ExePath[1] /\ p[2] = ExePath[2]

\* The conditions the checks look at that are not as they should be.
Failing ==
    {i \in Items :
        \/ i = "basePath" /\ (basePath \notin fsAccess \/ UnderInstallRoot(basePath))
        \/ i = "git" /\ ~gitProbe
        \/ i = "vcRedist" /\ platform = "win32" /\ VcRuntimePath \notin fsAccess
        \/ i = "venv" /\ venvState = "missing"}

\* The conditions that were not as they should be when ensureInstalled started.
FailingAtStart == Failing \cup repaired

(***************************************************************************)
(* C15: ensureInstalled on an installation whose every check passes        *)
(* returns it with isValid = true and hasIssues = false after one report,  *)
(* and the maintenance page is never presented.                            *)
(***************************************************************************)
C15_ValidInstallationReturnsAtOnce ==
    (FailingAtStart = {} /\ venvState = "complete") =>
        /\ ~onMaintenancePage
        /\ valPc # "repairing"
        /\ repairs = 0
        /\ valPc = "done" =>
               /\ installation.isValid
               /\ ~installation.hasIssues
               /\ Len(validationUpdates) = 1

\* ensureInstalled has returned a valid installation on Windows.
C15_Witness ==
    /\ FailingAtStart = {}
    /\ venvState = "complete"
    /\ platform = "win32"
    /\ valPc = "done"
    /\ installation.isValid

\* ensureInstalled has returned and exactly one of base path, git and VC
\* runtime was failing when it started.
OneFailingCheck ==
    /\ valPc = "done"
    /\ Cardinality(FailingAtStart) = 1
    /\ FailingAtStart \subseteq {"basePath", "git", "vcRedist"}

(***************************************************************************)
(* C16 as stated: with one failing check, the last report published marks  *)
(* exactly that item as error and the maintenance page is presented before *)
(* ensureInstalled returns.                                                *)
(***************************************************************************)
C16_LastReportMarksTheItem ==
    OneFailingCheck =>
        /\ ErrorItems(validationUpdates[Len(validationUpdates)]) = FailingAtStart
        /\ onMaintenancePage

(***************************************************************************)
(* C16 amended: with one failing check, the first report published marks   *)
(* exactly that item as error and the maintenance page is presented before *)
(* ensureInstalled returns; the last report marks exactly that item as     *)
(* error when no repair action has put the condition right, and no item    *)
(* when one has.                                                           *)
(***************************************************************************)
C16_FirstReportMarksTheItem ==
    OneFailingCheck =>
        /\ onMaintenancePage
        /\ ErrorItems(validationUpdates[1]) = FailingAtStart
        /\ ErrorItems(validationUpdates[Len(validationUpdates)]) = Failing

\* The VC runtime is missing on Windows, nothing was repaired, and
\* ensureInstalled has returned.
C16_Witness ==
    /\ OneFailingCheck
    /\ FailingAtStart = {"vcRedist"}
    /\ repaired = {}
    /\ onMaintenancePage

(***************************************************************************)
(* C17: the base-path check yields error whenever the base path lies       *)
(* inside the directory of the running executable, whether or not the path *)
(* exists and is accessible.                                               *)
(***************************************************************************)
C17_BasePathInsideInstallRootIsError ==
    (UnderInstallRoot(basePath) /\ pending["basePath"] # "unset") =>
        pending["basePath"] = "error"

\* The base path is inside the install root, it is accessible, and the
\* check has run.
C17_Witness ==
    /\ UnderInstallRoot(basePath)
    /\ basePath \in fsAccess
    /\ pending["basePath"] = "error"

(***************************************************************************)
(* C18: after a validation pass that found errors no other pass runs       *)
(* unless a repair action was accepted in between.                         *)
(***************************************************************************)
C18_NoPassWithoutRepair ==
    /\ \A n \in 1..(Len(validationUpdates) - 1) :
           ~validationUpdates[n].overallValid =>
               validationUpdates[n + 1].repairs > validationUpdates[n].repairs
    /\ (valPc = "validating" /\ validationUpdates # <<>>) =>
           repairs > validationUpdates[Len(validationUpdates)].repairs

\* A second pass has published its report.
C18_Witness ==
    /\ Len(validationUpdates) >= 2
    /\ ~validationUpdates[1].overallValid

(***************************************************************************)
(* C19: when the app is packaged and the --dev-mode switch is absent,      *)
(* every override field is undefined and useExternalServer is false,       *)
(* whatever the environment variables; two launches that differ only in    *)
(* their environment variables get identical overrides.                    *)
(***************************************************************************)
C19_PackagedIgnoresEnvironment ==
    (isPackaged /\ ~devModeSwitch) =>
        /\ \A l \in Launches :
               /\ devOverrides[l].constructed =>
                      /\ \A name \in OverrideFields : devOverrides[l].fields[name] = NoValue
                      /\ ~useExternalServer(devOverrides[l])
               /\ ~externalServer[l]
        /\ (devOverrides[1].constructed /\ devOverrides[2].constructed) =>
               devOverrides[1] = devOverrides[2]

\* Two packaged launches without the switch, one with USE_EXTERNAL_SERVER
\* set to true and one without, have constructed their overrides and read
\* useExternalServer.
C19_Witness ==
    /\ isPackaged
    /\ ~devModeSwitch
    /\ devOverrides[1].constructed
    /\ devOverrides[2].constructed
    /\ processEnv[1]["USE_EXTERNAL_SERVER"] = "true"
    /\ processEnv[1]["COMFY_HOST"] = "set"
    /\ processEnv[2]["USE_EXTERNAL_SERVER"] = NoValue
    /\ ~externalServer[1]

\* A broken state is as the test found it, or went with the files that
\* deleteEverything removed.
Restored(state) ==
    CASE state = "installPath" ->
             ~configFile.exists \/ configFile.basePath = OriginalBasePath
      [] state = "venv" -> venvDir = "original" /\ invalidVenvDir = "absent"
      [] state = "serverStart" -> launchArgs = OriginalLaunchArgs

(***************************************************************************)
(* C20: after Symbol.asyncDispose has run, every state that was broken     *)
(* through breakInstallPath, breakVenv or breakServerStart is restored,    *)
(* for every combination of broken states.                                 *)
(***************************************************************************)
C20_BrokenStatesRestored ==
    disposePc \in {"done", "threw"} => \A state \in broken : Restored(state)

(***************************************************************************)
(* C21: with maxFiles > 0, after any sequence of rotations that starts     *)
(* with no timestamped file, the number of timestamped log files of a base *)
(* name never exceeds maxFiles.                                            *)
(***************************************************************************)
C21_RotatedFilesAtMostMaxFiles ==
    maxFiles > 0 => \A b \in BaseNames : Cardinality(rotatedLogs[b]) <= maxFiles

C26_TimerCancelledOnExit ==
    [][\A i \in Probes : promise[i].state = "resolved" => ~TimerFires(i)]_vars

(***************************************************************************)
(* C27: the outcome of the probe is decided by whichever of process exit   *)
(* and timeout expiry happens first, in every interleaving; the later      *)
(* event does not change an outcome that has been delivered.               *)
(***************************************************************************)
C27_FirstEventDecides ==
    [][\A i \in Probes :
          /\ promise[i].state \in {"resolved", "rejected"} => promise'[i] = promise[i]
          /\ (promise[i].state = "pending" /\ ExitEvent(i)) => promise'[i].state = "resolved"
          /\ (promise[i].state = "pending" /\ TimerFires(i)) => promise'[i].state = "rejected"]_vars

\* Both events have happened to a probe that the exit settled, and to one
\* that the timer settled.
C27_Witness ==
    \E i, j \in Probes :
        /\ proc[i].state = "exited" /\ timer[i] = "fired" /\ promise[i].state = "resolved"
        /\ proc[j].state = "exited" /\ timer[j] = "fired" /\ promise[j].state = "rejected"

(* C23: from process start until the first setInstallStage call the        *)
(* current install stage is the idle stage with progress 0, whether or not *)
(* initializeAppState has been called: the stage starts there, and only a  *)
(* step that is a setInstallStage call (by the bootstrap sequence or by a  *)
(* handler) changes it.                                                    *)
C23_IdleUntilFirstSet ==
    /\ installStage = [stage |-> "idle", progress |-> <<0>>]
    /\ [][ installStage' # installStage =>
             \E stage \in StageInputs :
                 SetInstallStage(stage) \/ SubscriberSetsStage(stage) ]_vars

\* Reached: the app state is initialized, loaded has been emitted to a
\* subscriber, setInstallStage was never called and the stage is still idle.
C23_Witness ==
    /\ initialized
    /\ loaded
    /\ lastCall.op = "emitLoaded"
    /\ callStack = <<>>
    /\ installStage = [stage |-> "idle", progress |-> <<0>>]

(* C24: useAppState throws AppStartError whenever it is called before a    *)
(* successful initializeAppState, and after initialization every call      *)
(* returns the same single app-state object.                               *)
C24_UseAppStateGuarded ==
    [][ (lastCall'.op = "useAppState" /\ lastCall' # lastCall) =>
          IF initialized
          THEN /\ lastCall'.outcome = "returned"
               /\ lastCall'.value = <<appState>>
          ELSE /\ lastCall'.outcome = "threw"
               /\ lastCall'.value = <<>> ]_vars

\* Reached: useAppState has thrown before initialization.
C24_Witness ==
    /\ ~initialized
    /\ lastCall = Call("useAppState", "threw")

(* C28: after a setInstallStage call has fully returned, calls made by a   *)
(* subscriber from inside its installStageChanged handler included, the    *)
(* stage last delivered to each subscriber registered at the call equals   *)
(* the current installStage.                                               *)
C28_LastDeliveredIsCurrent ==
    SetStageReturned =>
        \A i \in 1..Len(lastCall.snapshot) :
            lastCall.last[lastCall.snapshot[i]] = <<installStage>>

\* emit(event) has been called and its first listener, the once-listener of
\* initialize(), is the next thing to run: no code of the program runs
\* between the two.
EmitEntering(event) ==
    /\ callStack # <<>>
    /\ Top.event = event
    /\ Top.pending # <<>>
    /\ NextListener = Internal

(* C29: after initialization the flags ipcRegistered, loaded and           *)
(* isQuitting only ever change from false to true, and loaded              *)
(* (respectively ipcRegistered) is true exactly when the loaded            *)
(* (respectively ipcRegistered) event has been emitted.                    *)
C29_FlagsLatch ==
    /\ [](initialized =>
            \A event \in OneShotEvents :
                EmitEntering(event) \/ (Flag(event) <=> emits[event] > 0))
    /\ [][ /\ isQuitting => isQuitting'
           /\ loaded => loaded'
           /\ ipcRegistered => ipcRegistered' ]_vars

\* Reached: loaded has been emitted and set, ipcRegistered has not been
\* emitted and is unset, and the app is quitting.
C29_Witness ==
    /\ callStack = <<>>
    /\ initialized
    /\ isQuitting
    /\ loaded /\ emits["loaded"] = 1
    /\ ~ipcRegistered /\ emits["ipcRegistered"] = 0

\* The chunks the helper wrote to stdout, in the order it wrote them.
RECURSIVE StdoutOf(_)
StdoutOf(written) ==
    IF written = <<>> THEN <<>>
    ELSE IF Head(written)[1] = "stdout"
         THEN <<Head(written)[2]>> \o StdoutOf(Tail(written))
         ELSE StdoutOf(Tail(written))

\* A direct runCommandAsync call with checkExit = false is over.
UncheckedRunOver ==
    /\ cmOp = "runCommandAsync"
    /\ ~run.checkExit
    /\ cmPc = "idle"
    /\ cmResult.state # "none"

(* C25: runCommandAsync with checkExit = false treats a non-zero exit code *)
(* as data: for every exit code it returns the collected stdout and never  *)
(* throws because of the exit code; it throws only when the helper could   *)
(* not be started.                                                         *)
C25_UncheckedExitIsData ==
    UncheckedRunOver =>
        IF run.exited
        THEN cmResult = [state |-> "returned", value |-> StdoutOf(run.written)]
        ELSE cmResult.state = "threw" /\ helperCalls = <<>>

\* Reached: a call with checkExit = false has returned the stdout of a helper
\* that wrote to both streams and exited with code 2.
C25_Witness ==
    /\ UncheckedRunOver
    /\ run.exited
    /\ run.exitCode = 2
    /\ Len(run.written) = 2
    /\ cmResult = [state |-> "returned", value |-> <<"out-a">>]

\* Both helper invocations of the restoreCustomNodes in progress, the export
\* and the import, have exited with code 0.
BothStepsSucceeded ==
    /\ cmOp = "restoreCustomNodes"
    /\ Len(helperCalls) = 2
    /\ helperCalls[1].args[Len(helperCalls[1].args) - 3] = "save-snapshot"
    /\ helperCalls[1].exitCode = <<0>>
    /\ helperCalls[2].args[Len(helperCalls[2].args) - 3] = "restore-snapshot"
    /\ helperCalls[2].exitCode = <<0>>

(* C30: if the export or the import step of restoreCustomNodes fails, the  *)
(* call deletes nothing in the target installation: the manager directory  *)
(* under the target's custom_nodes is removed only after both steps        *)
(* succeeded.                                                              *)
C30_RemovedOnlyAfterBothSteps ==
    [][ (managerDir /\ ~managerDir') => BothStepsSucceeded ]_vars

\* Reached: the import step failed after the helper had created the manager
\* directory; restoreCustomNodes has thrown and the directory is still there.
C30_Witness ==
    /\ cmOp = "restoreCustomNodes"
    /\ cmPc = "idle"
    /\ cmResult.state = "threw"
    /\ Len(helperCalls) = 2
    /\ helperCalls[2].exitCode = <<1>>
    /\ managerDir
    /\ tmpFile = "removed"

\* The environment the helper is to get for a caller's env: the caller's
\* variables unchanged, and COMFYUI_PATH = basePath when the caller has none.
CallerWins(env, helperEnv) ==
    /\ DOMAIN helperEnv = DOMAIN env \cup {"COMFYUI_PATH"}
    /\ \A k \in DOMAIN env : helperEnv[k] = env[k]
    /\ "COMFYUI_PATH" \notin DOMAIN env => helperEnv["COMFYUI_PATH"] = BasePath

(* C31: runCommandAsync builds the helper's environment so that a value    *)
(* the caller supplies wins over the default: COMFYUI_PATH is the caller's *)
(* value when there is one and the base path of the virtual environment    *)
(* otherwise, every other variable of the caller is passed unchanged, and  *)
(* the helper is started with exactly that environment.                    *)
C31_CallerEnvWins ==
    [][ /\ \A env \in DirectEnvs, checkExit \in BOOLEAN :
               RunCommandAsync(env, checkExit) => CallerWins(env, run'.env)
        /\ \A fromComfyDir \in FromDirs :
               RestoreCustomNodes(fromComfyDir) =>
                   CallerWins(Env2("COMFYUI_PATH", fromComfyDir,
                                   "PYTHONPATH", fromComfyDir), run'.env)
        /\ (\E accessible \in BOOLEAN : HelperStarts(accessible)) =>
               helperCalls'[Len(helperCalls')].env = run.env ]_vars

\* Reached: the helper of a direct call runs with the caller's COMFYUI_PATH
\* and the caller's other variable.
C31_Witness ==
    /\ cmOp = "runCommandAsync"
    /\ Len(helperCalls) = 1
    /\ helperCalls[1].env = Env2("COMFYUI_PATH", "/source", "OTHER", "value")

(* C32: runCommandAsync forwards every stdout chunk to the caller's        *)
(* onStdout and every stderr chunk to the caller's onStderr exactly once   *)
(* and in arrival order, and its return value is the concatenation of the  *)
(* stdout chunks in arrival order; stderr is never part of it.             *)
C32_ChunksForwardedInOrder ==
    /\ Len(run.forwarded) = Len(run.written)
    /\ \A i \in 1..Len(run.written) :
           run.forwarded[i] =
               << IF run.written[i][1] = "stdout" THEN "onStdout" ELSE "onStderr",
                  run.written[i][2] >>
    /\ (cmOp = "runCommandAsync" /\ cmResult.state = "returned") =>
           cmResult.value = StdoutOf(run.written)

\* Reached: a direct call has returned after the helper wrote a stderr chunk
\* and then a stdout chunk.
C32_Witness ==
    /\ cmOp = "runCommandAsync"
    /\ cmResult = [state |-> "returned", value |-> <<"out-b">>]
    /\ run.written = << <<"stderr", "err-a">>, <<"stdout", "out-b">> >>

(* C33: after n >= 1 successful breakInstallPath calls, a following        *)
(* restoreInstallPath leaves config.basePath equal to the original         *)
(* basePath; restoreInstallPath with no preceding break leaves the         *)
(* configuration file untouched.                                           *)
C33_RestoreUndoesEveryBreak ==
    /\ []( ( /\ teCall.op = "restoreInstallPath"
             /\ teCall.outcome = "returned"
             /\ teCall.flagBefore ) =>
               configFile.basePath = OriginalBasePath )
    /\ [][ \A fails \in BOOLEAN :
               (RestoreInstallPath(fails) /\ ~haveBroken.installPath) =>
                   configFile' = configFile ]_vars

(* C34: if a restore method (restoreInstallPath, restoreVenv,              *)
(* restoreServerStart) throws, its broken-state flag is still set          *)
(* afterwards, so that a later restore call attempts the restoration       *)
(* again.                                                                  *)
C34_FlagKeptWhenRestoreThrows ==
    /\ (teCall.op = "restoreInstallPath" /\ teCall.outcome = "threw") =>
           haveBroken.installPath
    /\ (teCall.op = "restoreVenv" /\ teCall.outcome = "threw") => haveBroken.venv
    /\ (teCall.op = "restoreServerStart" /\ teCall.outcome = "threw") =>
           haveBroken.serverStart

(* C35: Symbol.asyncDispose with destroyEnvironmentOnDispose = true        *)
(* completes without throwing for every combination of broken states,      *)
(* also when breakInstallPath was called earlier.                          *)
C35_DestroyingDisposeCompletes ==
    destroyEnvironmentOnDispose => disposePc # "threw"

(* C36: if a break method (breakInstallPath, breakVenv, breakServerStart)  *)
(* throws, its broken-state flag has the value it had before the call,     *)
(* also when an earlier call of the same method had set the flag.          *)
C36_FlagUnchangedWhenBreakThrows ==
    /\ (teCall.op = "breakInstallPath" /\ teCall.outcome = "threw") =>
           haveBroken.installPath = teCall.flagBefore
    /\ (teCall.op = "breakVenv" /\ teCall.outcome = "threw") =>
           haveBroken.venv = teCall.flagBefore
    /\ (teCall.op = "breakServerStart" /\ teCall.outcome = "threw") =>
           haveBroken.serverStart = teCall.flagBefore

(***************************************************************************)
(* findAvailablePort.                                                      *)
(***************************************************************************)
PortSettled == portPromise.state \in {"resolved", "rejected"}

\* The ports listen was called on.
Tried == {portAttempts[i].port : i \in 1..Len(portAttempts)}

(* C37: findAvailablePort tries the ports in ascending order, each at most *)
(* once, and always settles: it resolves with the lowest port of           *)
(* [startPort, endPort] on which listening succeeded, and rejects if and   *)
(* only if listening failed on every port of the range, the empty range    *)
(* startPort > endPort included.                                           *)
C37_LowestFreePortOrReject ==
    /\ []( /\ \A i \in 1..Len(portAttempts) :
                  /\ portAttempts[i].port = portStart + i - 1
                  /\ portAttempts[i].port <= portEnd
                  /\ i < Len(portAttempts) => ~portAttempts[i].ok
           /\ portPromise.state = "resolved" =>
                  /\ portAttempts # <<>>
                  /\ portAttempts[Len(portAttempts)].ok
                  /\ portPromise.value = portAttempts[Len(portAttempts)].port
           /\ portPromise.state = "rejected" =>
                  /\ Tried = portStart..portEnd
                  /\ \A i \in 1..Len(portAttempts) : ~portAttempts[i].ok )
    /\ <>PortSettled

\* Reached: listening failed on the first two ports of the range and
\* findAvailablePort resolved with the third.
C37_Witness ==
    /\ portPromise = [state |-> "resolved", value |-> portStart + 2]
    /\ Len(portAttempts) = 3
    /\ portEnd > portStart + 2

(* C38: in every reachable state the progress of the current install stage *)
(* is either undefined (indeterminate) or a number in the range 0 to 100,  *)
(* for every value passed to createInstallStageInfo and setInstallStage.   *)
C38_ProgressInRange ==
    \/ installStage.progress = <<>>
    \/ /\ Len(installStage.progress) = 1
       /\ installStage.progress[1] \in 0..100

====
